---- MODULE Spec2Model ----
(***************************************************************************)
(* Model of the document-structure and matching core of qadam_backend:     *)
(*   - detect_chapters and its strategies            (src/ai_service.py)   *)
(*   - detect_questions / extract_sub_parts          (src/ai_service.py)   *)
(*   - split_into_question_blocks_fixed          (src/question_parser.py)  *)
(*   - map_questions_to_chapters / refine_chapter_match_with_llm           *)
(*                                                    (src/ai_service.py)  *)
(* Each component has its own specification (SpecChap, SpecQ, SpecBlk,     *)
(* SpecMap) over the shared variables; a specification leaves the          *)
(* variables of the other components unchanged.                            *)
(***************************************************************************)
EXTENDS Integers, Sequences, FiniteSets, TLC

VARIABLES
    \* ---- chapter boundary resolver (detect_chapters) ----
    pages_text,      \* the textbook: page count and what its text holds
    c_pc,            \* position inside detect_chapters
    toc_chapters,    \* result of extract_from_table_of_contents
    chapters,        \* the list detect_chapters returns
    c_strategy,      \* which strategy produced `chapters`
    \* ---- the TOC resolver run on its own, once and again ----
    toc_runs,        \* what each run returned: [toc_chapters, chapters]
    \* ---- question detection (detect_questions) ----
    full_text,       \* the paper: its lines
    q_pc,            \* position inside detect_questions
    questions,       \* detect_questions.questions
    \* ---- question boundary resolver (split_into_question_blocks_fixed) ----
    paper_text,      \* the OCR text of the paper: its lines
    b_pc,            \* position inside split_into_question_blocks_fixed
    blocks,          \* the list split_into_question_blocks_fixed returns
    raised,          \* the exception the call ended with, "" for none
    \* ---- chapter matching (map_questions_to_chapters) ----
    GROQ_API_KEY,    \* whether a key of the completion service is configured
    vector_store,    \* the in-memory cache: textbook id -> entry
    vector_db,       \* the directory VECTOR_DB_DIR: path -> file
    textbook_id,     \* the textbook map_questions_to_chapters is called for
    m_index,         \* its locals `index` and `metadata`
    idx,             \* its local `idx` as it stands at line 999
    slept,           \* per refinement call of the run: did time.sleep(4) run
    http_log,        \* the refinement call's requests so far: outcome and wait
    m_error,         \* the textbook id the error message names, 0 for none
    m_questions,     \* the questions handed to map_questions_to_chapters
    m_pc,            \* position inside map_questions_to_chapters
    m_pos,           \* the question the loop is at (1-based)
    candidates,      \* the candidates of the question the loop is at
    attempt,         \* refine_chapter_match_with_llm.attempt
    mapped_questions,\* map_questions_to_chapters.mapped_questions
    llm_titles,      \* per mapped question, the title the completion named ("" if none)
    m_result,        \* what the call returned: "success", "no_index", "error"
    \* ---- index build (extract_chapters_from_textbook) ----
    e_pc,            \* position inside extract_chapters_from_textbook
    e_id,            \* the textbook it is called for
    e_index,         \* its locals `index` and `metadata`
    e_result,        \* what the call returned: "success", "error"
    \* ---- extraction of the record from a completion
    \*      (refine_chapter_match_with_llm, lines 1193-1256) ----
    x_pc,            \* position inside the extraction
    x_content,       \* the text of the completion
    x_titles,        \* valid_titles: the titles of the candidates
    x_result,        \* llm_result
    x_tried,         \* the methods that ran, with what each made of the text
    x_return         \* what the function returns, NoJson standing for None

chapVars == <<pages_text, c_pc, toc_chapters, chapters, c_strategy>>

qVars == <<full_text, q_pc, questions>>

blkVars == <<paper_text, b_pc, blocks, raised>>

mapVars == <<GROQ_API_KEY, vector_store, vector_db, textbook_id, m_index, idx, slept,
             http_log, m_error, m_questions, m_pc, m_pos, candidates,
             attempt, mapped_questions, llm_titles, m_result>>

tocVars == <<toc_runs>>

buildVars == <<e_pc, e_id, e_index, e_result>>

parseVars == <<x_pc, x_content, x_titles, x_result, x_tried, x_return>>

vars == <<chapVars, tocVars, qVars, blkVars, mapVars, buildVars, parseVars>>

\* What each component leaves unchanged
notChap == <<tocVars, qVars, blkVars, mapVars, buildVars, parseVars>>

notQ == <<chapVars, tocVars, blkVars, mapVars, buildVars, parseVars>>

notBlk == <<chapVars, tocVars, qVars, mapVars, buildVars, parseVars>>

notMap == <<chapVars, tocVars, qVars, blkVars, buildVars, parseVars>>

notParse == <<chapVars, tocVars, qVars, blkVars, mapVars, buildVars>>

\* What a build leaves unchanged besides the cache and the directory
notBuild == <<chapVars, tocVars, qVars, blkVars, parseVars, GROQ_API_KEY, textbook_id, m_index, idx, slept,
              http_log, m_error, m_questions, m_pc, m_pos, candidates, attempt,
              mapped_questions, llm_titles, m_result>>

(***************************************************************************)
(* Generic helpers                                                         *)
(***************************************************************************)
Range(s) == {s[i] : i \in 1..Len(s)}

Min2(a, b) == IF a <= b THEN a ELSE b

Max2(a, b) == IF a >= b THEN a ELSE b

\* All sequences over S of length 0..n
SeqsUpTo(S, n) == UNION {[1..k -> S] : k \in 0..n}

(***************************************************************************)
(* Chapter boundary resolver                                               *)
(***************************************************************************)
\* Bounds of the chapter model
MaxTocLines == 3

MaxHeadings == 2

\* Page counts of the modelled textbooks (page_number runs 1..n)
PageCounts == {4, 25, 300, 600}

\* Page numbers a table-of-contents line can print
TocPageRefs == {1, 9}

\* Chapter numbers a table-of-contents line can print
TocNumbers == {1, 2}

\* Titles as they are captured from a line, with what the rejection rules
\* look at: length, first word (lower-cased), case of the first letter.
TocTitles == {"Motion", "Forces", "what is force"}

\* The heading patterns only capture titles that start with a capital
HeadTitles == {"Motion", "What is force", "Calculate force"}

\* Pages on which a heading line is found
HeadPages == {1, 2}

TitleLen(t) ==
    CASE t = "Motion" -> 6
      [] t = "Forces" -> 6
      [] t = "what is force" -> 13
      [] t = "What is force" -> 13
      [] t = "Calculate force" -> 15

\* the first word of title.lower()
TitleStart(t) ==
    CASE t = "Motion" -> "motion"
      [] t = "Forces" -> "forces"
      [] t = "what is force" -> "what"
      [] t = "What is force" -> "what"
      [] t = "Calculate force" -> "calculate"

\* title[0].isupper()
TitleFirstUpper(t) == t # "what is force"

\* extract_from_table_of_contents, lines 557-582: the title filters
TocInvalidStarts == {"what", "to calculate", "determine", "find", "calculate",
                     "however", "therefore", "thus", "hence",
                     "electric field at", "magnetic field at"}

TocTitleRejected(t) ==
    \/ TitleLen(t) < 5 \/ TitleLen(t) > 80
    \/ TitleStart(t) \in TocInvalidStarts
    \/ ~TitleFirstUpper(t)
    \/ TitleStart(t) \in {"how", "why", "when", "where"}

\* detect_chapters, lines 366-373: the title filters of the heading scan
ScanInvalidStarts == {"what", "to calculate", "determine", "find", "however", "therefore"}

ScanTitleRejected(t) == TitleStart(t) \in ScanInvalidStarts

\* A line of a TOC page matched by one of toc_patterns: (number, title, page)
TocLines == [num : TocNumbers, title : TocTitles, page : TocPageRefs]

\* Lines 584-588: the entries that survive the filters, in line order
RECURSIVE TocCollect(_)
TocCollect(lines) ==
    IF lines = <<>> THEN <<>>
    ELSE LET l == Head(lines)
             rest == TocCollect(Tail(lines))
         IN IF TocTitleRejected(l.title) THEN rest
            ELSE <<[chapter_number |-> l.num, title |-> l.title,
                    page_start |-> l.page]>> \o rest

\* Lines 593-599: keep the first entry of every (chapter_number, title)
RECURSIVE TocUnique(_, _)
TocUnique(s, seen) ==
    IF s = <<>> THEN <<>>
    ELSE LET key == <<Head(s).chapter_number, Head(s).title>>
         IN IF key \in seen THEN TocUnique(Tail(s), seen)
            ELSE <<Head(s)>> \o TocUnique(Tail(s), seen \cup {key})

\* Line 601: sorted(..., key=chapter_number).
\* Python's sort is stable: equal keys keep their order. Inserting from the
\* back, before the first strictly larger key, keeps it.
RECURSIVE InsertStable(_, _)
InsertStable(x, s) ==
    IF s = <<>> THEN <<x>>
    ELSE IF x.chapter_number <= Head(s).chapter_number THEN <<x>> \o s
         ELSE <<Head(s)>> \o InsertStable(x, Tail(s))

RECURSIVE StableSortByNumber(_)
StableSortByNumber(s) ==
    IF s = <<>> THEN <<>>
    ELSE InsertStable(Head(s), StableSortByNumber(Tail(s)))

extract_from_table_of_contents(lines) ==
    StableSortByNumber(TocUnique(TocCollect(lines), {}))

\* Lines 617-623: a chapter has content iff some page number lies in its range
HasContent(page_start, page_end, n) ==
    \E p \in 1..n : page_start <= p /\ p <= page_end

\* map_toc_to_content, lines 608-632
RECURSIVE MapTocFrom(_, _, _)
MapTocFrom(toc, i, n) ==
    IF i > Len(toc) THEN <<>>
    ELSE LET page_start == toc[i].page_start
             page_end == IF i + 1 <= Len(toc) THEN toc[i + 1].page_start - 1 ELSE n
             rest == MapTocFrom(toc, i + 1, n)
         IN IF HasContent(page_start, page_end, n)
            THEN <<[chapter_number |-> toc[i].chapter_number, title |-> toc[i].title,
                    page_start |-> page_start, page_end |-> page_end]>> \o rest
            ELSE rest

map_toc_to_content(toc, n) == MapTocFrom(toc, 1, n)

\* try_manual_chapter_mapping, lines 422-437: the hard-coded table
ncert_physics_12 ==
    << [number |-> 1,  title |-> "Electric Charges and Fields", approx_start |-> 1],
       [number |-> 2,  title |-> "Electrostatic Potential and Capacitance", approx_start |-> 45],
       [number |-> 3,  title |-> "Current Electricity", approx_start |-> 89],
       [number |-> 4,  title |-> "Moving Charges and Magnetism", approx_start |-> 133],
       [number |-> 5,  title |-> "Magnetism and Matter", approx_start |-> 177],
       [number |-> 6,  title |-> "Electromagnetic Induction", approx_start |-> 221],
       [number |-> 7,  title |-> "Alternating Current", approx_start |-> 265],
       [number |-> 8,  title |-> "Electromagnetic Waves", approx_start |-> 309],
       [number |-> 9,  title |-> "Ray Optics and Optical Instruments", approx_start |-> 353],
       [number |-> 10, title |-> "Wave Optics", approx_start |-> 397],
       [number |-> 11, title |-> "Dual Nature of Radiation and Matter", approx_start |-> 441],
       [number |-> 12, title |-> "Atoms", approx_start |-> 485],
       [number |-> 13, title |-> "Nuclei", approx_start |-> 529],
       [number |-> 14, title |-> "Semiconductor Electronics", approx_start |-> 573] >>

\* Lines 448-471: the table entries whose page range holds a page
RECURSIVE ManualFrom(_, _)
ManualFrom(i, n) ==
    IF i > Len(ncert_physics_12) THEN <<>>
    ELSE LET page_start == ncert_physics_12[i].approx_start
             page_end == IF i + 1 <= Len(ncert_physics_12)
                         THEN ncert_physics_12[i + 1].approx_start - 1 ELSE n
             rest == ManualFrom(i + 1, n)
         IN IF HasContent(page_start, page_end, n)
            THEN <<[chapter_number |-> ncert_physics_12[i].number,
                    title |-> ncert_physics_12[i].title,
                    page_start |-> page_start, page_end |-> page_end]>> \o rest
            ELSE rest

\* try_manual_chapter_mapping: None (modelled <<>>, equally falsy) unless the
\* three phrases co-occur in the first 50 pages
try_manual_chapter_mapping(is_ncert, n) ==
    IF is_ncert THEN ManualFrom(1, n) ELSE <<>>

\* Line 333: the manual mapping is used only with more than 5 chapters
ManualMinChapters == 5

\* A heading-pattern line among the first 10 lines of a page
HeadingLines(n) == [page : HeadPages \cap (1..n), title : HeadTitles]

\* Heading lines come in page order (pages are scanned in order)
PageOrdered(h) == \A i \in 1..Len(h) - 1 : h[i].page <= h[i + 1].page

\* detect_chapters, lines 350-401: the scan. `cur` is current_chapter
\* (<<>> for None, <<c>> for an open chapter), `num` is chapter_number.
RECURSIVE ScanLines(_, _, _, _, _)
ScanLines(hs, page, cur, num, done) ==
    \* the heading lines of one page, in line order (lines 354-391)
    IF hs = <<>> THEN [cur |-> cur, num |-> num, done |-> done]
    ELSE IF ScanTitleRejected(Head(hs).title)
         THEN ScanLines(Tail(hs), page, cur, num, done)
         ELSE LET closed == IF cur # <<>>
                            THEN Append(done, [cur[1] EXCEPT !.page_end = page - 1])
                            ELSE done
                  opened == [chapter_number |-> num + 1, title |-> Head(hs).title,
                             page_start |-> page, page_end |-> page]
              IN ScanLines(Tail(hs), page, <<opened>>, num + 1, closed)

\* Pages without a heading line only move the open chapter's page_end
\* (lines 394-396), so the scan steps from one page with heading lines to the
\* next such page and finishes at page n.
RECURSIVE ScanPages(_, _, _, _, _, _)
ScanPages(heads, page, n, cur, num, done) ==
    LET later == {h.page : h \in {x \in Range(heads) : x.page >= page}}
    IN IF later = {}
       THEN IF cur # <<>> THEN Append(done, [cur[1] EXCEPT !.page_end = n])  \* lines 399-401
            ELSE done
       ELSE LET p == CHOOSE q \in later : \A r \in later : q <= r
                here == SelectSeq(heads, LAMBDA h : h.page = p)
                r == ScanLines(here, p, cur, num, done)
                cur2 == IF r.cur # <<>> THEN <<[r.cur[1] EXCEPT !.page_end = p]>> ELSE <<>>
            IN ScanPages(heads, p + 1, n, cur2, r.num, r.done)

HeadingScan(heads, n) == ScanPages(heads, 1, n, <<>>, 0, <<>>)

\* detect_chapters, lines 404-414: one chapter per 10 pages
BlockSize == 10

RECURSIVE UniformFrom(_, _)
UniformFrom(i, n) ==
    IF i >= n THEN <<>>
    ELSE <<[chapter_number |-> (i \div BlockSize) + 1, title |-> "Section",
            page_start |-> i + 1, page_end |-> Min2(i + BlockSize, n)]>>
         \o UniformFrom(i + BlockSize, n)

\* Blocks of whole BlockSize pages only: a short last block is left out
UniformWholeBlocks(n) == IF n < BlockSize THEN <<>> ELSE UniformFrom(0, n)

UniformBlocks(n) == UniformFrom(0, n)

ChapStart ==
    /\ pages_text \in [n : PageCounts,
                       toc : SeqsUpTo(TocLines, MaxTocLines),
                       is_ncert : {"unread"},
                       heads : {<<>>}]
    /\ c_pc = "toc"
    /\ toc_chapters = <<>>
    /\ chapters = <<>>
    /\ c_strategy = "none"

\* The chapter resolver at rest (the other specifications leave it there)
ChapIdle ==
    /\ pages_text = [n |-> 0, toc |-> <<>>, is_ncert |-> "unread", heads |-> <<>>]
    /\ c_pc = "idle"
    /\ toc_chapters = <<>>
    /\ chapters = <<>>
    /\ c_strategy = "none"

\* detect_chapters, lines 320-327
TryToc ==
    /\ c_pc = "toc"
    /\ LET toc == extract_from_table_of_contents(pages_text.toc)
           chs == IF toc # <<>> THEN map_toc_to_content(toc, pages_text.n) ELSE <<>>
       IN /\ toc_chapters' = toc
          /\ IF chs # <<>>
             THEN /\ chapters' = chs /\ c_strategy' = "toc" /\ c_pc' = "done"
             ELSE /\ chapters' = <<>> /\ c_strategy' = "none" /\ c_pc' = "manual"
    /\ UNCHANGED <<pages_text, notChap>>

\* detect_chapters, lines 331-335; the first 50 pages are read here
TryManual ==
    /\ c_pc = "manual"
    /\ \E is_ncert \in BOOLEAN :
          LET manual == try_manual_chapter_mapping(is_ncert, pages_text.n)
          IN /\ pages_text' = [pages_text EXCEPT !.is_ncert = IF is_ncert THEN "yes" ELSE "no"]
             /\ IF manual # <<>> /\ Len(manual) > ManualMinChapters
                THEN /\ chapters' = manual /\ c_strategy' = "manual" /\ c_pc' = "done"
                ELSE /\ chapters' = <<>> /\ c_strategy' = "none" /\ c_pc' = "scan"
    /\ UNCHANGED <<toc_chapters, notChap>>

\* detect_chapters, lines 338-401; the first lines of every page are read here
TryScan ==
    /\ c_pc = "scan"
    /\ \E heads \in SeqsUpTo(HeadingLines(pages_text.n), MaxHeadings) :
          /\ PageOrdered(heads)
          /\ LET chs == HeadingScan(heads, pages_text.n)
             IN /\ pages_text' = [pages_text EXCEPT !.heads = heads]
                /\ IF chs # <<>>
                   THEN /\ chapters' = chs /\ c_strategy' = "scan" /\ c_pc' = "done"
                   ELSE /\ chapters' = <<>> /\ c_strategy' = "none" /\ c_pc' = "uniform"
    /\ UNCHANGED <<toc_chapters, notChap>>

\* detect_chapters, lines 404-416
Uniform ==
    /\ c_pc = "uniform"
    /\ chapters' = UniformBlocks(pages_text.n)
    /\ c_strategy' = "uniform"
    /\ c_pc' = "done"
    /\ UNCHANGED <<pages_text, toc_chapters, notChap>>

ChapNext == TryToc \/ TryManual \/ TryScan \/ Uniform

(***************************************************************************)
(* The TOC resolver run twice on the same pages:                           *)
(* extract_from_table_of_contents followed by map_toc_to_content           *)
(***************************************************************************)
\* Runs of the TOC resolver on one textbook
MaxRuns == 2

\* The keys a run would skip because an earlier run had seen them
SeenKept(left) == {<<left[i].chapter_number, left[i].title>> : i \in 1..Len(left)}

\* Line 593: `seen` is a new empty set in every call, whatever list the
\* call before left behind
SeenAtEntry(left) == {}

TocStart ==
    /\ pages_text \in [n : PageCounts,
                       toc : SeqsUpTo(TocLines, MaxTocLines),
                       is_ncert : {"unread"},
                       heads : {<<>>}]
    /\ c_pc = "idle"
    /\ toc_chapters = <<>>
    /\ chapters = <<>>
    /\ c_strategy = "none"
    /\ toc_runs = <<>>

\* No run of the TOC resolver on its own
TocIdle == toc_runs = <<>>

\* One call of extract_from_table_of_contents (lines 475-606) followed by
\* map_toc_to_content (lines 608-632) on the pages. Both build their lists
\* anew (lines 477, 593-594, 610); the pages are only read.
RunToc ==
    /\ Len(toc_runs) < MaxRuns
    /\ LET toc == StableSortByNumber(
                      TocUnique(TocCollect(pages_text.toc), SeenAtEntry(toc_chapters)))
           chs == map_toc_to_content(toc, pages_text.n)
       IN /\ toc_chapters' = toc
          /\ chapters' = chs
          /\ toc_runs' = Append(toc_runs, [toc_chapters |-> toc, chapters |-> chs])
    /\ UNCHANGED <<pages_text, c_pc, c_strategy, qVars, blkVars, mapVars, buildVars, parseVars>>

TocNext == RunToc

(***************************************************************************)
(* Question detection: detect_questions, extract_sub_parts, is_mcq_options *)
(*                                                                         *)
(* The paper is a sequence of lines. A line is written in one of the       *)
(* formats the patterns of detect_questions tell apart and carries a body: *)
(* a lead-in stem and a list of marked parts "(a) ...", "(ii) ..." (style  *)
(* "full") or "a) ..." at the start of a line (style "bare"). Texts are    *)
(* kept by their lengths in characters, which is all the code looks at     *)
(* besides the markers and two word lists.                                 *)
(***************************************************************************)
\* Bounds of the question model
MaxLines == 2

MaxParts == 4

QNumbers == {1, 2}

\* "dot"      N. body          "idot"   <spaces>N. body
\* "paren"    N) body          "q"      QN. body
\* "question" Question N: body "bracket" [N] body
\* "text"     body (no number) "blank"  an empty line
NumberedFormats == {"dot", "idot", "paren", "q", "question", "bracket"}

\* length of the number prefix once leading whitespace is stripped
PrefixLen(fmt) ==
    CASE fmt = "dot" -> 3
      [] fmt = "idot" -> 3
      [] fmt = "paren" -> 3
      [] fmt = "q" -> 4
      [] fmt = "question" -> 12
      [] fmt = "bracket" -> 4
      [] OTHER -> 0

Labels == <<"a", "b", "c", "d", "e">>

RomanLabels == <<"i", "ii", "iii", "iv", "v">>

LabelLen(l) == IF l \in {"ii", "iv"} THEN 2 ELSE IF l = "iii" THEN 3 ELSE 1

\* [a-z] with IGNORECASE: one letter
IsLetterLabel(l) == LabelLen(l) = 1

\* [ivxlcdm]+ with IGNORECASE: only letters that are Roman digits
IsRomanLabel(l) == l \in {"c", "d", "i", "ii", "iii", "iv", "v"}

\* Lengths of the text of a marked part, and of a lead-in stem
SpanLens == {4, 80, 110}

Stems == {[len |-> 0, diag |-> FALSE], [len |-> 8, diag |-> FALSE],
          [len |-> 24, diag |-> FALSE], [len |-> 24, diag |-> TRUE]}

PlainBody(n) == [stem |-> [len |-> n, diag |-> FALSE], style |-> "full", parts |-> <<>>]

\* "(a) Red (b) Blue (c) Green (d) Yellow"
OptionParts ==
    << [label |-> "a", len |-> 3, opt |-> FALSE], [label |-> "b", len |-> 4, opt |-> FALSE],
       [label |-> "c", len |-> 5, opt |-> FALSE], [label |-> "d", len |-> 6, opt |-> FALSE] >>

\* "(a) Define X. (b) Explain Y. (c) Derive Z."
SubPartParts ==
    << [label |-> "a", len |-> 9, opt |-> FALSE], [label |-> "b", len |-> 10, opt |-> FALSE],
       [label |-> "c", len |-> 9, opt |-> FALSE] >>

ScenarioBodies ==
    {[stem |-> st, style |-> "full", parts |-> ps] : st \in Stems, ps \in {OptionParts, SubPartParts}}

\* k parts labelled in order, each of any length; only the first part's text
\* may hold one of the option words
GeneratedParts(labels, k) ==
    {[i \in 1..k |-> [label |-> labels[i], len |-> lens[i], opt |-> (i = 1 /\ o)]] :
        lens \in [1..k -> SpanLens], o \in BOOLEAN}

GeneratedBodies ==
    {[stem |-> st, style |-> sty, parts |-> ps] :
        st \in Stems, sty \in {"full", "bare"},
        ps \in UNION {GeneratedParts(ls, k) : ls \in {Labels, RomanLabels}, k \in 2..MaxParts}}

SimpleLines ==
    [fmt : NumberedFormats, num : QNumbers, body : {PlainBody(8), PlainBody(40)}]
    \cup [fmt : {"text"}, num : {0}, body : {PlainBody(8), PlainBody(40)}]
    \cup [fmt : {"blank"}, num : {0}, body : {PlainBody(0)}]

RichLines == [fmt : {"dot"}, num : QNumbers, body : ScenarioBodies \cup GeneratedBodies]

Papers == SeqsUpTo(SimpleLines, MaxLines) \cup {<<l>> : l \in RichLines}

RECURSIVE SumSeq(_)
SumSeq(s) == IF s = <<>> THEN 0 ELSE Head(s) + SumSeq(Tail(s))

\* a marker and the blank after it: "(a) " or "a) "
MarkLen(style, label) == IF style = "full" THEN LabelLen(label) + 3 ELSE LabelLen(label) + 2

\* the pieces of a body, each with its length; pieces are one separator apart
BodyPieces(b) ==
    (IF b.stem.len > 0 THEN <<b.stem.len>> ELSE <<>>)
    \o [i \in 1..Len(b.parts) |-> MarkLen(b.style, b.parts[i].label) + b.parts[i].len]

Joined(pieces) == IF pieces = <<>> THEN 0 ELSE SumSeq(pieces) + Len(pieces) - 1

BodyLen(b) == Joined(BodyPieces(b))

\* Lines 672-677: which markers a pattern of extract_sub_parts matches
SubPatterns == <<"letter", "roman", "letter_paren", "roman_paren">>

PatternMatches(pattern, b) ==
    LET wantStyle == IF pattern \in {"letter", "roman"} THEN "full" ELSE "bare"
        class(l) == IF pattern \in {"letter", "letter_paren"} THEN IsLetterLabel(l)
                    ELSE IsRomanLabel(l)
    IN SelectSeq([i \in 1..Len(b.parts) |-> i],
                 LAMBDA i : b.style = wantStyle /\ class(b.parts[i].label))

\* The parts group(2) of the j-th match runs over: up to the next match
Covered(m, j, b) ==
    m[j] .. (IF j < Len(m) THEN m[j + 1] - 1 ELSE Len(b.parts))

\* len(match.group(2).strip())
SpanLen(m, j, b) ==
    LET cov == Covered(m, j, b)
    IN Joined([k \in 1..Cardinality(cov) |->
               IF k = 1 THEN b.parts[m[j]].len
               ELSE MarkLen(b.style, b.parts[m[j] + k - 1].label) + b.parts[m[j] + k - 1].len])

\* whether matches[0].group(2) holds one of mcq_indicators (line 756)
FirstHasIndicator(m, b) == \E k \in Covered(m, 1, b) : b.parts[k].opt

\* is_mcq_options, lines 731-759
McqAvgLimit == 100

McqCount == 4

McqIndicatorAvgLimit == 80

is_mcq_options(m, b) ==
    IF Len(m) < 2 THEN FALSE
    ELSE LET lengths == [j \in 1..Len(m) |-> SpanLen(m, j, b)]
             total == SumSeq(lengths)
             n == Len(m)
             Abs(x) == IF x < 0 THEN 0 - x ELSE x
             \* avg_length = total / n; the comparisons are scaled by 2n
             similar_lengths == \A j \in 1..n : 2 * Abs(n * lengths[j] - total) < total
         IN \/ (total < McqAvgLimit * n /\ n = McqCount /\ similar_lengths)
            \/ (FirstHasIndicator(m, b) /\ total < McqIndicatorAvgLimit * n)

\* extract_sub_parts, lines 690-727: the sub-questions of one pattern
IntroMinLen == 10

SubTextMinLen == 15

DiagramNoteLen == 26

SubTextMaxLen == 2500

SubQuestions(main_q_num, m, b) ==
    LET intro_len == Joined((IF b.stem.len > 0 THEN <<b.stem.len>> ELSE <<>>)
                            \o [k \in 1..(m[1] - 1) |->
                                  MarkLen(b.style, b.parts[k].label) + b.parts[k].len])
        has_diagram == b.stem.diag
        full_len(j) ==
            LET lab == LabelLen(b.parts[m[j]].label) + 2
                base == IF intro_len > IntroMinLen
                        THEN intro_len + 1 + lab + 1 + SpanLen(m, j, b)
                        ELSE lab + 1 + SpanLen(m, j, b)
            IN Min2(IF has_diagram THEN DiagramNoteLen + base ELSE base, SubTextMaxLen)
        all == [j \in 1..Len(m) |->
                  [question_number |-> <<main_q_num, b.parts[m[j]].label>>,
                   text_len |-> full_len(j)]]
    IN SelectSeq(all, LAMBDA q : q.text_len > SubTextMinLen)

\* extract_sub_parts, lines 667-729
MinSubParts == 2

RECURSIVE SubPartsFrom(_, _, _)
SubPartsFrom(p, main_q_num, b) ==
    IF p > Len(SubPatterns) THEN <<>>
    ELSE LET m == PatternMatches(SubPatterns[p], b)
         IN IF Len(m) >= MinSubParts /\ ~is_mcq_options(m, b)
            THEN SubQuestions(main_q_num, m, b)
            ELSE SubPartsFrom(p + 1, main_q_num, b)

extract_sub_parts(main_q_num, b) == SubPartsFrom(1, main_q_num, b)

\* clean_question_text, lines 656-665: the length of the cleaned text
CleanMaxLen == 2000

clean_question_text(len) == Min2(len, CleanMaxLen)

\* The blocks a pattern "(?:^|\n)<start>(.+?)(?=\n<start>|\Z)" cuts: each
\* line in a format of starts with the lines up to the next such line. Lines
\* before the first start line belong to no block.
RECURSIVE BlocksOf(_, _, _)
BlocksOf(lines, starts, open) ==
    IF lines = <<>> THEN (IF open = <<>> THEN <<>> ELSE <<open>>)
    ELSE IF Head(lines).fmt \in starts
         THEN (IF open = <<>> THEN <<>> ELSE <<open>>) \o BlocksOf(Tail(lines), starts, <<Head(lines)>>)
         ELSE BlocksOf(Tail(lines), starts, IF open = <<>> THEN <<>> ELSE Append(open, Head(lines)))

\* the rendered length of a line that continues a block
LineLen(l) == PrefixLen(l.fmt) + BodyLen(l.body)

\* the blanks in front of an indented number
IndentLen(fmt) == IF fmt = "idot" THEN 2 ELSE 0

\* length of match.group(2).strip() once whitespace runs are single blanks
BlockTextLen(block) ==
    LET rest == SelectSeq(Tail(block), LAMBDA l : l.fmt # "blank")
    IN Joined(<<BodyLen(block[1].body)>> \o [k \in 1..Len(rest) |-> LineLen(rest[k])])

QuestionMinLen == 15

\* detect_questions, lines 813-855: the questions of one main block
MainBlockQuestions(block) ==
    LET q_num == block[1].num
        \* sub_part_patterns, lines 819-830: some marker is in the text
        has_sub_parts == block[1].body.parts # <<>>
        sub_parts == IF has_sub_parts THEN extract_sub_parts(q_num, block[1].body) ELSE <<>>
        single == IF clean_question_text(BlockTextLen(block)) > QuestionMinLen
                  THEN <<[question_number |-> <<q_num, "">>,
                          text_len |-> clean_question_text(BlockTextLen(block))]>>
                  ELSE <<>>
    IN IF sub_parts # <<>> THEN sub_parts ELSE single

RECURSIVE FlatMap(_, _)
FlatMap(f(_), s) == IF s = <<>> THEN <<>> ELSE f(Head(s)) \o FlatMap(f, Tail(s))

\* main_matches, line 808
main_matches(text) == BlocksOf(text, {"dot"}, <<>>)

\* lines 859-878: the alternative patterns, in order; the first with a match
AltFormats == <<"paren", "q", "question">>

AltBlockQuestions(block) ==
    IF clean_question_text(BlockTextLen(block)) > QuestionMinLen
    THEN <<[question_number |-> <<block[1].num, "">>,
            text_len |-> clean_question_text(BlockTextLen(block))]>>
    ELSE <<>>

RECURSIVE AltFrom(_, _)
AltFrom(p, text) ==
    IF p > Len(AltFormats) THEN <<>>
    ELSE LET ms == BlocksOf(text, {AltFormats[p]}, <<>>)
         IN IF ms # <<>> THEN FlatMap(AltBlockQuestions, ms) ELSE AltFrom(p + 1, text)

\* lines 880-891: the first question of every question_number
RECURSIVE UniqueQuestions(_, _)
UniqueQuestions(qs, seen) ==
    IF qs = <<>> THEN <<>>
    ELSE IF Head(qs).question_number \in seen THEN UniqueQuestions(Tail(qs), seen)
         ELSE <<Head(qs)>> \o UniqueQuestions(Tail(qs), seen \cup {Head(qs).question_number})

\* lines 896-924: the line-by-line scan. A body in style "bare" is several
\* lines, all but the first continuing the question.
LineMatches(l) == l.fmt \in {"dot", "idot", "paren", "q", "bracket"}

RECURSIVE LineScan(_, _, _)
LineScan(lines, current_q, out) ==
    LET flush == IF current_q # <<>> /\ current_q[1].text_len > QuestionMinLen
                 THEN Append(out, current_q[1]) ELSE out
    IN IF lines = <<>> THEN flush
       ELSE LET l == Head(lines)
            IN IF l.fmt = "blank" THEN LineScan(Tail(lines), current_q, out)
               ELSE IF LineMatches(l)
                    THEN LineScan(Tail(lines),
                                  <<[question_number |-> <<l.num, "">>, text_len |-> BodyLen(l.body)]>>,
                                  flush)
                    ELSE IF current_q # <<>>
                         THEN LineScan(Tail(lines),
                                       <<[current_q[1] EXCEPT !.text_len = @ + 1 + LineLen(l)]>>, out)
                         ELSE LineScan(Tail(lines), current_q, out)

\* lines 927-935: paragraphs are the runs of lines between empty lines
RECURSIVE ParagraphLens(_, _)
ParagraphLens(lines, open) ==
    LET close == IF open = <<>> THEN <<>> ELSE <<Joined(open)>>
    IN IF lines = <<>> THEN close
       ELSE IF Head(lines).fmt = "blank" THEN close \o ParagraphLens(Tail(lines), <<>>)
            ELSE ParagraphLens(Tail(lines),
                               Append(open, LineLen(Head(lines))
                                            + (IF open = <<>> THEN 0 ELSE IndentLen(Head(lines).fmt))))

ParagraphMinLen == 30

ParagraphMaxLen == 800

ParagraphQuestions(text) ==
    LET paragraphs == SelectSeq(ParagraphLens(text, <<>>), LAMBDA n : n > ParagraphMinLen)
    IN [i \in 1..Len(paragraphs) |->
          [question_number |-> <<i, "">>, text_len |-> Min2(paragraphs[i], ParagraphMaxLen)]]

\* lines 810-878: what the patterns find, before duplicates are removed
PatternQuestions(text) ==
    IF main_matches(text) # <<>>
    THEN FlatMap(MainBlockQuestions, main_matches(text))
    ELSE AltFrom(1, text)

\* detect_questions, lines 798-938
detect_questions(text) ==
    LET unique_questions == UniqueQuestions(PatternQuestions(text), {})
        by_line == LineScan(text, <<>>, <<>>)
    IN IF unique_questions # <<>> THEN unique_questions
       ELSE IF by_line # <<>> THEN by_line
       ELSE ParagraphQuestions(text)

QStart ==
    /\ full_text \in Papers
    /\ q_pc = "start"
    /\ questions = <<>>

\* detect_questions at rest
QIdle ==
    /\ full_text = <<>>
    /\ q_pc = "idle"
    /\ questions = <<>>

\* One call of detect_questions on the text of the paper
DetectQuestions ==
    /\ q_pc = "start"
    /\ questions' = detect_questions(full_text)
    /\ q_pc' = "done"
    /\ UNCHANGED <<full_text, notQ>>

QNext == DetectQuestions

(***************************************************************************)
(* Question boundaries: split_into_question_blocks_fixed                   *)
(*                                                                         *)
(* The OCR text is a sequence of lines. A line opens with a number in one  *)
(* of the ways the patterns tell apart, or with a letter the OCR may have  *)
(* read for a digit, or with nothing, and goes on with one of a few fixed  *)
(* bodies. Positions are character offsets into the text, as in the code.  *)
(***************************************************************************)
MaxBlkLines == 3

\* "dot"    N. body      "dash"   N - body     "emdash" N — body
\* "q"      QN. body     "letter" x. body      "margin" N  (alone on a line)
\* "text"   body
BlkPrefixLen(fmt) ==
    CASE fmt = "dot" -> 3
      [] fmt = "dash" -> 4
      [] fmt = "emdash" -> 4
      [] fmt = "q" -> 4
      [] fmt = "letter" -> 3
      [] fmt = "margin" -> 1
      [] OTHER -> 0

\* The bodies and what the code can see of them:
\*   "short"  Ab
\*   "what"   What is the speed of light in vacuum?
\*   "long"   Energy is conserved in every closed system and momentum is
\*            conserved in every collision between two rigid bodies
\*   "instr"  General Instructions
\*   "page"   Page 2 is blank
\*   "stars"  ***
\*   "ref"    see Q2 above
\*   "none"   (nothing: a margin number)
\* len: characters; alpha: holds a letter (line 960); likely: holds a question
\* mark or a question word (lines 986-990); instr: holds an instruction
\* keyword (lines 966-982); page: the number in a leading "Page N", a
\* false-positive phrase of lines 771-784, 0 for none; qref: the number in
\* an inner "QN", 0 for none
BlkBody(kind) ==
    CASE kind = "short" ->
           [len |-> 2, alpha |-> TRUE, likely |-> FALSE, instr |-> FALSE, page |-> 0, qref |-> 0]
      [] kind = "what" ->
           [len |-> 37, alpha |-> TRUE, likely |-> TRUE, instr |-> FALSE, page |-> 0, qref |-> 0]
      [] kind = "long" ->
           [len |-> 112, alpha |-> TRUE, likely |-> FALSE, instr |-> FALSE, page |-> 0, qref |-> 0]
      [] kind = "instr" ->
           [len |-> 20, alpha |-> TRUE, likely |-> FALSE, instr |-> TRUE, page |-> 0, qref |-> 0]
      [] kind = "page" ->
           [len |-> 15, alpha |-> TRUE, likely |-> FALSE, instr |-> FALSE, page |-> 2, qref |-> 0]
      [] kind = "stars" ->
           [len |-> 3, alpha |-> FALSE, likely |-> FALSE, instr |-> FALSE, page |-> 0, qref |-> 0]
      [] kind = "ref" ->
           [len |-> 12, alpha |-> TRUE, likely |-> FALSE, instr |-> FALSE, page |-> 0, qref |-> 2]
      [] OTHER ->
           [len |-> 0, alpha |-> FALSE, likely |-> FALSE, instr |-> FALSE, page |-> 0, qref |-> 0]

BlkLine(fmt, num, letter, body) == [fmt |-> fmt, num |-> num, letter |-> letter, body |-> body]

BlkLines ==
    {BlkLine("dot", n, "", b) : n \in 1..3, b \in {"short", "what"}}
    \cup {BlkLine("dot", 2, "", b) : b \in {"long", "instr", "page", "stars"}}
    \cup {BlkLine("dot", 0, "", "what")}
    \cup {BlkLine(f, 2, "", "what") : f \in {"dash", "emdash", "q"}}
    \cup {BlkLine("letter", 0, x, "what") : x \in {"l", "a"}}
    \cup {BlkLine("margin", 2, "", "none")}
    \cup {BlkLine("text", 0, "", b) : b \in {"what", "ref"}}

\* a margin number stands last or in front of a numbered or a plain line
BlkTexts ==
    {t \in SeqsUpTo(BlkLines, MaxBlkLines) :
        \A i \in 1..(Len(t) - 1) :
            t[i].fmt = "margin" =>
                (t[i + 1].fmt \in {"dot", "text"} \/ (t[i + 1].fmt = "letter" /\ t[i + 1].letter = "l"))}

\* fix_ocr_number_misrecognition, lines 534-541
OcrLetters == {"q", "l", "o", "s", "b", "g"}

ocr_fixes(letter) ==
    CASE letter = "q" -> 7
      [] letter = "l" -> 1
      [] letter = "o" -> 0
      [] letter = "s" -> 5
      [] letter = "b" -> 6
      [] letter = "g" -> 9

\* fix_ocr_number_misrecognition, lines 524-567
fix_ocr_number_misrecognition(text) ==
    [i \in 1..Len(text) |->
        IF text[i].fmt = "letter" /\ text[i].letter \in OcrLetters
        THEN BlkLine("dot", ocr_fixes(text[i].letter), "", text[i].body)
        ELSE text[i]]

\* line 590: the next line opens with a number and a dot or parenthesis
OpensNumbered(l) == l.fmt = "dot"

\* preprocess_margin_numbers, lines 569-606
RECURSIVE preprocess_margin_numbers(_)
preprocess_margin_numbers(lines) ==
    IF lines = <<>> THEN <<>>
    ELSE IF /\ Head(lines).fmt = "margin"
            /\ Len(lines) > 1
            /\ ~OpensNumbered(lines[2])
         THEN \* "N" and the plain line after it become "N. <that line>"
              <<BlkLine("dot", Head(lines).num, "", lines[2].body)>>
              \o preprocess_margin_numbers(Tail(Tail(lines)))
         ELSE <<Head(lines)>> \o preprocess_margin_numbers(Tail(lines))

\* lines 621-626
Preprocessed(text) == preprocess_margin_numbers(fix_ocr_number_misrecognition(text))

BlkRawLen(l) == BlkPrefixLen(l.fmt) + BlkBody(l.body).len

\* the offset of the first character of line i
BlkOffset(text, i) == SumSeq([j \in 1..(i - 1) |-> BlkRawLen(text[j]) + 1])

BlkTextLen(text) == IF text = <<>> THEN 0 ELSE BlkOffset(text, Len(text)) + BlkRawLen(text[Len(text)])

\* where a match that takes in the line break before line i starts
BreakPos(text, i) == IF i = 1 THEN 0 ELSE BlkOffset(text, i) - 1

\* lines 718-747: the matches of the patterns on line i, in the order of
\* their start and, for one start, of the patterns. A match is the line it
\* is on, its span and the number it captured.
LineStarts(text, i) ==
    LET l == text[i]
        o == BlkOffset(text, i)
        at(pos, end) == [line |-> i, start |-> pos, end |-> end, num |-> l.num]
    IN CASE l.fmt = "dot" -> <<at(BreakPos(text, i), o + 3), at(o, o + 2)>>
         [] l.fmt = "dash" -> <<at(BreakPos(text, i), o + 3)>>
         [] l.fmt = "q" -> <<at(BreakPos(text, i), o + 2)>>
         [] l.fmt = "margin" /\ i < Len(text) -> <<at(BreakPos(text, i), o + 2)>>
         [] OTHER -> <<>>

RECURSIVE AllStartsFrom(_, _)
AllStartsFrom(text, i) ==
    IF i > Len(text) THEN <<>> ELSE LineStarts(text, i) \o AllStartsFrom(text, i + 1)

\* sorted(all_starts, key=start), line 756
all_starts(text) == AllStartsFrom(text, 1)

\* lines 752-767: a match closer than this to a kept one is dropped
MinStartDistance == 10

RECURSIVE UniqueStarts(_, _)
UniqueStarts(ms, seen_positions) ==
    IF ms = <<>> THEN <<>>
    ELSE LET pos == Head(ms).start
             Abs(x) == IF x < 0 THEN 0 - x ELSE x
             is_duplicate == \E seen_pos \in seen_positions : Abs(pos - seen_pos) < MinStartDistance
         IN IF is_duplicate THEN UniqueStarts(Tail(ms), seen_positions)
            ELSE <<Head(ms)>> \o UniqueStarts(Tail(ms), seen_positions \cup {pos})

\* lines 786-790: the context reaches this far on both sides of the match
ContextReach == 100

\* the length of the phrase "Page N"
PagePhraseLen(n) == IF n < 10 THEN 6 ELSE 7

\* lines 786-809: the first false-positive phrase inside the context of the
\* match holds the captured number
is_false_positive(text, m) ==
    LET start == Max2(0, m.start - ContextReach)
        end == Min2(BlkTextLen(text), m.end + ContextReach)
        phraseAt(j) == BlkOffset(text, j) + BlkPrefixLen(text[j].fmt)
        inside == {j \in 1..Len(text) :
                     /\ BlkBody(text[j].body).page # 0
                     /\ phraseAt(j) >= start
                     /\ phraseAt(j) + PagePhraseLen(BlkBody(text[j].body).page) <= end}
    IN /\ inside # {}
       /\ BlkBody(text[CHOOSE j \in inside : \A k \in inside : j <= k].body).page = m.num

filtered_starts(text) ==
    SelectSeq(UniqueStarts(all_starts(text), {}), LAMBDA m : ~is_false_positive(text, m))

\* lines 811-830: the first match of every number above 0
RECURSIVE FinalStarts(_, _)
FinalStarts(ms, seen_q_numbers) ==
    IF ms = <<>> THEN <<>>
    ELSE IF Head(ms).num \notin seen_q_numbers /\ Head(ms).num > 0
         THEN <<Head(ms)>> \o FinalStarts(Tail(ms), seen_q_numbers \cup {Head(ms).num})
         ELSE FinalStarts(Tail(ms), seen_q_numbers)

final_starts(text) == FinalStarts(filtered_starts(text), {})

\* lines 858-859: the numbers between the least and the greatest kept
\* number that no kept match carries
MissingNumbers(starts) ==
    LET q_numbers == {starts[i].num : i \in 1..Len(starts)}
        lo == CHOOSE n \in q_numbers : \A k \in q_numbers : n <= k
        hi == CHOOSE n \in q_numbers : \A k \in q_numbers : n >= k
    IN (lo..hi) \ q_numbers

\* lines 870-887: some search pattern finds miss_num in the text
SearchHit(text, miss_num) ==
    \E i \in 1..Len(text) :
        \/ text[i].fmt \in {"dot", "dash", "emdash", "q"} /\ text[i].num = miss_num
        \/ text[i].fmt = "margin" /\ i < Len(text) /\ text[i].num = miss_num
        \/ BlkBody(text[i].body).qref = miss_num

MaxMissing == 30

\* lines 861-898: the numbers gap recovery finds a match for
Recovered(text, starts) ==
    IF MissingNumbers(starts) # {} /\ Cardinality(MissingNumbers(starts)) < MaxMissing
    THEN {n \in MissingNumbers(starts) : SearchHit(text, n)}
    ELSE {}

\* lines 941-952: the lines of the block that opens at the i-th start
BlockLines(text, starts, i) ==
    starts[i].line .. (IF i < Len(starts) THEN starts[i + 1].line - 1 ELSE Len(text))

BlockLen(text, ls) ==
    Joined([k \in 1..Cardinality(ls) |->
              BlkRawLen(text[(CHOOSE j \in ls : \A x \in ls : j <= x) + k - 1])])

BlockMinLen == 5

BlockShortLen == 30

\* lines 954-999: the block is kept
BlockKept(text, ls) ==
    LET is_instruction_only == \E j \in ls : BlkBody(text[j].body).instr
        is_likely_question == \E j \in ls : BlkBody(text[j].body).likely
    IN /\ BlockLen(text, ls) >= BlockMinLen
       /\ \E j \in ls : BlkBody(text[j].body).alpha
       /\ ~(is_instruction_only /\ ~is_likely_question)
       /\ ~(BlockLen(text, ls) < BlockShortLen /\ ~is_likely_question)

\* block_number order, equal numbers in the order they were appended
RECURSIVE InsertBlock(_, _)
InsertBlock(b, sorted) ==
    IF sorted = <<>> THEN <<b>>
    ELSE IF b.block_number < Head(sorted).block_number THEN <<b>> \o sorted
         ELSE <<Head(sorted)>> \o InsertBlock(b, Tail(sorted))

RECURSIVE SortBlocks(_)
SortBlocks(bs) ==
    IF bs = <<>> THEN <<>>
    ELSE InsertBlock(bs[Len(bs)], SortBlocks(SubSeq(bs, 1, Len(bs) - 1)))

\* lines 941-1038
PatternBlocks(text, starts) ==
    LET all == [i \in 1..Len(starts) |->
                  [block_number |-> starts[i].num,
                   first_line |-> starts[i].line,
                   len |-> BlockLen(text, BlockLines(text, starts, i))]]
        kept == SelectSeq([i \in 1..Len(starts) |-> i],
                          LAMBDA i : BlockKept(text, BlockLines(text, starts, i)))
    IN SortBlocks([k \in 1..Len(kept) |-> all[kept[k]]])

ScanWindow == 20

ScanMinLen == 3

\* lines 1060-1083: the lines of the block the scan opens at line i
ScanBlockLines(text, i) ==
    LET last == Min2(i + ScanWindow - 1, Len(text))
        next == {j \in (i + 1)..last : OpensNumbered(text[j])}
    IN i .. (IF next = {} THEN last ELSE (CHOOSE j \in next : \A k \in next : j <= k) - 1)

\* lines 1056-1088
LineScanBlocks(text) ==
    LET opens == SelectSeq([i \in 1..Len(text) |-> i],
                           LAMBDA i : /\ OpensNumbered(text[i])
                                      /\ BlockLen(text, ScanBlockLines(text, i)) > ScanMinLen
                                      /\ \E j \in ScanBlockLines(text, i) : BlkBody(text[j].body).alpha)
    IN SortBlocks([k \in 1..Len(opens) |->
                     [block_number |-> text[opens[k]].num,
                      first_line |-> opens[k],
                      len |-> BlockLen(text, ScanBlockLines(text, opens[k]))]])

BlkStart ==
    /\ paper_text \in BlkTexts
    /\ b_pc = "start"
    /\ blocks = <<>>
    /\ raised = ""

\* split_into_question_blocks_fixed at rest
BlkIdle ==
    /\ paper_text = <<>>
    /\ b_pc = "idle"
    /\ blocks = <<>>
    /\ raised = ""

\* split_into_question_blocks_fixed, lines 836-1054: starts were found and
\* gap recovery adds none
SplitByPatterns ==
    LET text == Preprocessed(paper_text)
        starts == final_starts(text)
    IN /\ b_pc = "start"
       /\ starts # <<>>
       /\ Recovered(text, starts) = {}
       /\ blocks' = PatternBlocks(text, starts)
       /\ b_pc' = "done"
       /\ UNCHANGED <<paper_text, raised, notBlk>>

\* lines 917-924: gap recovery appends the matches of its search patterns,
\* which capture nothing, and int(m.group(1)) on them raises IndexError
SplitRecovers ==
    LET text == Preprocessed(paper_text)
        starts == final_starts(text)
    IN /\ b_pc = "start"
       /\ starts # <<>>
       /\ Recovered(text, starts) # {}
       /\ raised' = "IndexError"
       /\ b_pc' = "done"
       /\ UNCHANGED <<paper_text, blocks, notBlk>>

\* lines 1055-1094: no start was kept, the lines are scanned
SplitByLineScan ==
    LET text == Preprocessed(paper_text)
    IN /\ b_pc = "start"
       /\ final_starts(text) = <<>>
       /\ blocks' = LineScanBlocks(text)
       /\ b_pc' = "done"
       /\ UNCHANGED <<paper_text, raised, notBlk>>

BlkNext == SplitByPatterns \/ SplitRecovers \/ SplitByLineScan

(***************************************************************************)
(* Chapter matching: map_questions_to_chapters and                         *)
(* refine_chapter_match_with_llm                                           *)
(*                                                                         *)
(* An index is the number of vectors in the FAISS index file and the       *)
(* chapter list of the metadata file. The embedding of a question fixes    *)
(* the order and the distances in which a search returns the vectors. The  *)
(* completion service answers each request with a status and, on 200, a    *)
(* text; both are the environment's choice.                                *)
(***************************************************************************)
MaxQuestions == 2

ChapterTitles == <<"Motion", "Forces", "Energy", "Waves", "Optics", "Atoms">>

\* extract_chapters_from_textbook, lines 249-292: the metadata of a build
ChapterList(n) ==
    [i \in 1..n |->
        [chapter_number |-> i,
         chapter_title |-> IF n = 1 THEN "Complete Textbook" ELSE ChapterTitles[i],
         page_start |-> 10 * (i - 1) + 1,
         page_end |-> 10 * i]]

NoIndex == [present |-> FALSE, ntotal |-> 0, chapters |-> <<>>]

\* lines 272-292: one vector per chapter
ChapterIndex(n) == [present |-> TRUE, ntotal |-> n, chapters |-> ChapterList(n)]

BuiltIndexes == {ChapterIndex(n) : n \in {1, Len(ChapterTitles)}}

\* save_vector_index, lines 88-92, writes the index file and then the
\* metadata file: when the second write cannot open its file the index of
\* the new build stands next to the metadata of the build before
TornIndexes ==
    {[present |-> TRUE, ntotal |-> Len(ChapterTitles), chapters |-> ChapterList(1)]}

\* The textbooks of the application
TextbookIds == {1, 2}

\* One index file for all textbooks
shared_index_path(id) == <<"index", 1>>

\* lines 84 and 103: textbook_{id}.index
index_path(id) == <<"index", id>>

\* lines 85 and 104: textbook_{id}.pkl
metadata_path(id) == <<"pkl", id>>

Paths == {index_path(id) : id \in TextbookIds} \cup {metadata_path(id) : id \in TextbookIds}

\* What a path of the directory holds
NoFile == [exists |-> FALSE, ntotal |-> 0, chapters |-> <<>>]

\* line 88: faiss.write_index
IndexFile(index) == [exists |-> TRUE, ntotal |-> index.ntotal, chapters |-> <<>>]

\* line 91: open(metadata_path, 'wb') leaves a file that holds nothing
EmptyFile == [exists |-> TRUE, ntotal |-> 0, chapters |-> <<>>]

\* line 92: pickle.dump(metadata, f)
MetadataFile(metadata) == [exists |-> TRUE, ntotal |-> 0, chapters |-> metadata.chapters]

\* Reads the index file alone and takes what the metadata path holds
load_index_only(db, id) ==
    IF ~db[index_path(id)].exists THEN NoIndex
    ELSE [present |-> TRUE, ntotal |-> db[index_path(id)].ntotal,
          chapters |-> db[metadata_path(id)].chapters]

\* load_vector_index, lines 100-120: (None, None), here NoIndex, unless both
\* files exist (lines 106-107) and both can be read (lines 118-120)
load_vector_index(db, id) ==
    IF ~db[index_path(id)].exists \/ ~db[metadata_path(id)].exists THEN NoIndex
    ELSE IF EmptyFile \in {db[index_path(id)], db[metadata_path(id)]} THEN NoIndex
    ELSE [present |-> TRUE, ntotal |-> db[index_path(id)].ntotal,
          chapters |-> db[metadata_path(id)].chapters]

\* The textbook the questions of a run are mapped to
QueriedIds == {1}

\* The cache entry and the two files of one textbook
Stored(cache, index, metadata) == [cache |-> cache, index |-> index, metadata |-> metadata]

\* Never built, or built and cached (lines 295-301)
SettledStates ==
    {Stored(NoIndex, NoFile, NoFile)}
    \cup {Stored(b, IndexFile(b), MetadataFile(b)) : b \in BuiltIndexes}

\* The textbook the call is not for: built and cached
OtherTextbook ==
    Stored(ChapterIndex(Len(ChapterTitles)), IndexFile(ChapterIndex(Len(ChapterTitles))),
           MetadataFile(ChapterIndex(Len(ChapterTitles))))

\* A textbook when a call begins. In a new process the cache is empty and
\* the directory holds what earlier processes left: a build, the index of
\* a build next to the metadata of the build before (TornIndexes), or one
\* file only (the other was not written, or was removed from the directory).
StoredStates ==
    SettledStates
    \cup {Stored(NoIndex, IndexFile(b), MetadataFile(b)) : b \in BuiltIndexes}
    \cup {Stored(NoIndex, IndexFile(t), MetadataFile(t)) : t \in TornIndexes}
    \cup {Stored(NoIndex, IndexFile(b), NoFile) : b \in BuiltIndexes}
    \cup {Stored(NoIndex, NoFile, MetadataFile(b)) : b \in BuiltIndexes}

\* vector_store and the directory for textbooks in the states f
CacheOf(f) == [id \in TextbookIds |-> f[id].cache]

DiskOf(f) ==
    [p \in Paths |-> IF p[1] = "index" THEN f[p[2]].index ELSE f[p[2]].metadata]

QuestionPool ==
    {[question_number |-> 1, question_text |-> "near the first chapters"],
     [question_number |-> 2, question_text |-> "near the last chapters"]}

SearchWidth == 5

\* line 970: the vector at rank r of the search (0-based index, as FAISS
\* returns it) and its distance
SearchIndex(question, index, r) ==
    IF question.question_number = 1 THEN r - 1 ELSE index.ntotal - r

SearchDistance(question, r) ==
    IF question.question_number = 1 THEN 2 * r + 1 ELSE r

\* lines 969-987
Candidates(question, index) ==
    LET k == Min2(SearchWidth, index.ntotal)
        hits == SelectSeq([r \in 1..k |-> r],
                          LAMBDA r : SearchIndex(question, index, r) < Len(index.chapters))
    IN [i \in 1..Len(hits) |->
          LET chapter == index.chapters[SearchIndex(question, index, hits[i]) + 1]
          IN [chapter_number |-> chapter.chapter_number,
              chapter_title |-> chapter.chapter_title,
              page_start |-> chapter.page_start,
              page_end |-> chapter.page_end,
              similarity_score |-> Max2(0, 100 - SearchDistance(question, hits[i]) * 10)]]

TitlesOf(cs) == [i \in 1..Len(cs) |-> cs[i].chapter_title]

\* lines 1077-1080 and 1111: the candidates the prompt offers
OfferedCount == 3

Offered(cs) == SubSeq(cs, 1, Min2(OfferedCount, Len(cs)))

\* The text of a completion. kind says how it is written:
\*   "fenced"  ```json {...all three keys or without "confidence"...} ```
\*   "plain"   the bare JSON object
\*   "broken"  ```json {"chapter_title": "T", } ```   (not JSON)
\*   "tiny"    {"a": 1}
\*   "prose"   a sentence without braces
\*   "empty_fenced"  ```json {} ``` and after it the bare JSON object
\* obj is the object a JSON text of the completion stands for.
ConfidenceValues == {85, 150}

CompletionObjects(titles) ==
    [chapter_title : titles] \cup [chapter_title : titles, confidence : ConfidenceValues]

Completions(titles) ==
    [kind : {"fenced", "plain", "broken", "tiny", "prose", "empty_fenced"},
     obj : CompletionObjects(titles)]

\* the titles a completion may name: a candidate's, or one it made up
NamedTitles(cs) == Range(TitlesOf(cs)) \cup {"Mechanics"}

NoJson == [parsed |-> FALSE, obj |-> [chapter_title |-> ""]]

Json(obj) == [parsed |-> TRUE, obj |-> obj]

\* the object {}
EmptyObject == [key \in {} |-> ""]

\* lines 1215, 1227 and 1241: `if not llm_result`, `if llm_result`; None and
\* the object without keys are false
Truthy(llm_result) == llm_result.parsed /\ DOMAIN llm_result.obj # {}

\* line 1243: llm_result.get('chapter_title', '')
ReturnedTitle(obj) == IF "chapter_title" \in DOMAIN obj THEN obj.chapter_title ELSE ""

\* lines 1205-1213: Method 1, the JSON code block
code_block(content) ==
    IF content.kind = "fenced" THEN Json(content.obj)
    ELSE IF content.kind = "empty_fenced" THEN Json(EmptyObject)
    ELSE NoJson

\* lines 1215-1225: Method 2, an object with the three keys in order
structured(content) ==
    IF content.kind \in {"plain", "empty_fenced"} /\ "confidence" \in DOMAIN content.obj
    THEN Json(content.obj) ELSE NoJson

\* lines 1227-1239: Method 3, the first braces of the text when they are
\* longer than 20 characters
fallback(content) ==
    IF content.kind \in {"plain", "fenced"} THEN Json(content.obj) ELSE NoJson

\* lines 1203-1239
ExtractJson(content) ==
    IF Truthy(code_block(content)) THEN code_block(content)
    ELSE IF Truthy(structured(content)) THEN structured(content)
    ELSE fallback(content)

\* lines 1241-1256: what refine_chapter_match_with_llm returns for a 200
\* response, NoJson standing for None
ValidatedMatch(content, cs) ==
    LET llm_result == ExtractJson(content)
        valid_titles == Range(TitlesOf(cs))
    IN IF Truthy(llm_result) /\ ReturnedTitle(llm_result.obj) \in valid_titles
       THEN llm_result ELSE NoJson

\* The top candidate whatever title was named, with the confidence as score
TopMatch(refined_match, cs) ==
    [cs[1] EXCEPT !.similarity_score =
        IF "confidence" \in DOMAIN refined_match THEN refined_match.confidence ELSE @]

\* lines 1008-1011
BestMatch(refined_match, cs) ==
    LET same == {i \in 1..Len(cs) : cs[i].chapter_title = refined_match.chapter_title}
        best_match == IF same = {} THEN cs[1]
                      ELSE cs[CHOOSE i \in same : \A j \in same : i <= j]
    IN [best_match EXCEPT !.similarity_score =
            IF "confidence" \in DOMAIN refined_match THEN refined_match.confidence ELSE @]

\* lines 1005-1021: chapters_matched
ChaptersMatched(refined, cs) ==
    IF refined.parsed THEN <<BestMatch(refined.obj, cs)>> ELSE SubSeq(cs, 1, 1)

\* lines 1047-1050
MappedEntry(question, chapters_matched) ==
    [question_number |-> question.question_number,
     question_text |-> question.question_text,
     chapters |-> chapters_matched]

\* a list that grows at its front
PrependMapped(mapped, entry) == <<entry>> \o mapped

\* line 1047: mapped_questions.append
AppendMapped(mapped, entry) == Append(mapped, entry)

MapStart ==
    /\ GROQ_API_KEY \in BOOLEAN
    /\ textbook_id \in QueriedIds
    /\ \E f \in [TextbookIds -> StoredStates] :
           /\ \A id \in TextbookIds \ {textbook_id} : f[id] = OtherTextbook
           /\ vector_store = CacheOf(f)
           /\ vector_db = DiskOf(f)
    /\ m_index = NoIndex
    /\ idx = 0
    /\ slept = <<>>
    /\ http_log = <<>>
    /\ m_error = 0
    /\ m_questions \in SeqsUpTo(QuestionPool, MaxQuestions)
    /\ m_pc = "start"
    /\ m_pos = 1
    /\ candidates = <<>>
    /\ attempt = 0
    /\ mapped_questions = <<>>
    /\ llm_titles = <<>>
    /\ m_result = ""

\* map_questions_to_chapters at rest
MapIdle ==
    /\ GROQ_API_KEY = FALSE
    /\ vector_store = [id \in TextbookIds |-> NoIndex]
    /\ vector_db = [p \in Paths |-> NoFile]
    /\ textbook_id = 0
    /\ m_index = NoIndex
    /\ idx = 0
    /\ slept = <<>>
    /\ http_log = <<>>
    /\ m_error = 0
    /\ m_questions = <<>>
    /\ m_pc = "idle"
    /\ m_pos = 1
    /\ candidates = <<>>
    /\ attempt = 0
    /\ mapped_questions = <<>>
    /\ llm_titles = <<>>
    /\ m_result = ""

\* lines 944-945: the textbook is in vector_store; the entry is looked up
\* for its index
UseCachedIndex ==
    /\ m_pc = "start"
    /\ vector_store[textbook_id].present
    /\ m_index' = [present |-> TRUE, ntotal |-> vector_store[textbook_id].ntotal,
                   chapters |-> <<>>]
    /\ m_pc' = "cached"
    /\ UNCHANGED <<GROQ_API_KEY, vector_store, vector_db, textbook_id, idx, slept, http_log,
                   m_error, m_questions, m_pos, candidates,
                   attempt, mapped_questions, llm_titles, m_result, notMap>>

\* line 946: the entry is looked up again for its metadata
UseCachedMetadata ==
    /\ m_pc = "cached"
    /\ m_index' = [m_index EXCEPT !.chapters = vector_store[textbook_id].chapters]
    /\ m_pc' = "loop"
    /\ UNCHANGED <<GROQ_API_KEY, vector_store, vector_db, textbook_id, idx, slept, http_log,
                   m_error, m_questions, m_pos, candidates,
                   attempt, mapped_questions, llm_titles, m_result, notMap>>

\* lines 947-948 with load_vector_index, lines 100-117
LoadIndex ==
    /\ m_pc = "start"
    /\ ~vector_store[textbook_id].present
    /\ load_vector_index(vector_db, textbook_id).present
    /\ m_index' = load_vector_index(vector_db, textbook_id)
    /\ m_pc' = "loaded"
    /\ UNCHANGED <<GROQ_API_KEY, vector_store, vector_db, textbook_id, idx, slept, http_log,
                   m_error, m_questions, m_pos, candidates,
                   attempt, mapped_questions, llm_titles, m_result, notMap>>

\* line 951: what was loaded goes into vector_store
CacheLoaded ==
    /\ m_pc = "loaded"
    /\ vector_store' = [vector_store EXCEPT ![textbook_id] = m_index]
    /\ m_pc' = "loop"
    /\ UNCHANGED <<GROQ_API_KEY, vector_db, textbook_id, m_index, idx, slept, http_log,
                   m_error, m_questions, m_pos, candidates,
                   attempt, mapped_questions, llm_titles, m_result, notMap>>

\* lines 948-950 with load_vector_index, lines 106-107
IndexMissing ==
    /\ m_pc = "start"
    /\ ~vector_store[textbook_id].present
    /\ ~load_vector_index(vector_db, textbook_id).present
    /\ m_result' = "no_index"
    /\ m_error' = textbook_id
    /\ m_pc' = "done"
    /\ UNCHANGED <<GROQ_API_KEY, vector_store, vector_db, textbook_id, m_index, idx, slept,
                   http_log, m_questions, m_pos, candidates,
                   attempt, mapped_questions, llm_titles, notMap>>

\* the loop of line 962 is at a question
AtQuestion == m_pc = "loop" /\ m_pos <= Len(m_questions)

\* The candidates being the chapter records themselves: the score line 1009
\* assigns lands in the cached metadata
EmitIntoIndex(chapters_matched, named_title) ==
    /\ mapped_questions' = AppendMapped(mapped_questions, MappedEntry(m_questions[m_pos], chapters_matched))
    /\ llm_titles' = Append(llm_titles, named_title)
    /\ m_pos' = m_pos + 1
    /\ m_pc' = "loop"
    /\ candidates' = <<>>
    /\ attempt' = 0
    /\ http_log' = <<>>
    /\ vector_store' =
           [vector_store EXCEPT ![textbook_id].chapters =
               [i \in 1..Len(@) |->
                   IF named_title # "" /\ @[i].chapter_title = chapters_matched[1].chapter_title
                   THEN [chapter_number |-> @[i].chapter_number,
                         chapter_title |-> @[i].chapter_title,
                         page_start |-> @[i].page_start,
                         page_end |-> @[i].page_end,
                         similarity_score |-> chapters_matched[1].similarity_score]
                   ELSE @[i]]]
    /\ UNCHANGED <<GROQ_API_KEY, vector_db, textbook_id, m_index, idx, slept,
                   m_error, m_questions, m_result, notMap>>

\* lines 1029-1050: the question is done with these chapters
Emit(chapters_matched, named_title) ==
    /\ mapped_questions' = AppendMapped(mapped_questions, MappedEntry(m_questions[m_pos], chapters_matched))
    /\ llm_titles' = Append(llm_titles, named_title)
    /\ m_pos' = m_pos + 1
    /\ m_pc' = "loop"
    /\ candidates' = <<>>
    /\ attempt' = 0
    /\ http_log' = <<>>
    /\ UNCHANGED <<GROQ_API_KEY, vector_store, vector_db, textbook_id, m_index, idx, slept,
                   m_error, m_questions, m_result, notMap>>

\* an exception that leaves the loop: lines 1057-1060
Abort ==
    /\ m_result' = "error"
    /\ m_pc' = "done"
    /\ UNCHANGED <<GROQ_API_KEY, vector_store, vector_db, textbook_id, m_index, idx, slept,
                   http_log, m_error, m_questions, m_pos, candidates,
                   attempt, mapped_questions, llm_titles, notMap>>

\* line 965: model.encode raises; the call is outside the try of line 991
EncodeFails ==
    /\ AtQuestion
    /\ Abort

\* lines 1022-1027 with no candidate: candidates[0] at line 1026 raises
NoCandidates ==
    /\ AtQuestion
    /\ Candidates(m_questions[m_pos], m_index) = <<>>
    /\ Abort

\* lines 1022-1027: no key, the top candidate of the search
FaissOnly ==
    /\ AtQuestion
    /\ ~GROQ_API_KEY
    /\ Candidates(m_questions[m_pos], m_index) # <<>>
    /\ Emit(SubSeq(Candidates(m_questions[m_pos], m_index), 1, 1), "")

\* The name idx at line 999. Line 962 binds it to the position of the
\* question (counted from 1); the loop of line 974 binds the same name to
\* every index of the search in turn, so after a search with hits it holds
\* the index of the last hit.
ShadowedIdx(position, question, index) ==
    LET k == Min2(SearchWidth, index.ntotal)
    IN IF k = 0 THEN position ELSE SearchIndex(question, index, k)

\* lines 990-1003 and 1071-1158: the delay of lines 999-1001, then
\* refinement begins
BeginRefine ==
    /\ AtQuestion
    /\ GROQ_API_KEY
    /\ Candidates(m_questions[m_pos], m_index) # <<>>
    /\ candidates' = Candidates(m_questions[m_pos], m_index)
    /\ idx' = ShadowedIdx(m_pos, m_questions[m_pos], m_index)
    /\ slept' = Append(slept, idx' > 0)
    /\ http_log' = <<>>
    /\ attempt' = 0
    /\ m_pc' = "llm"
    /\ UNCHANGED <<GROQ_API_KEY, vector_store, vector_db, textbook_id, m_index, m_error,
                   m_questions, m_pos, mapped_questions, llm_titles, m_result, notMap>>

max_retries == 3

base_delay == 5

\* A request of the refinement call that is tried again: how it ended and
\* the wait before the next one
Request(outcome, wait) == [outcome |-> outcome, wait |-> wait]

\* lines 1171-1178 and 1184-1191: wait and try again, or give up
RetryOrGiveUp(outcome) ==
    IF attempt < max_retries - 1
    THEN /\ attempt' = attempt + 1
         /\ http_log' = Append(http_log, Request(outcome, base_delay * 2 ^ attempt))
         /\ UNCHANGED <<GROQ_API_KEY, vector_store, vector_db, textbook_id, m_index, idx, slept,
                        m_error, m_questions, m_pc, m_pos, candidates,
                        mapped_questions, llm_titles, m_result, notMap>>
    ELSE Emit(SubSeq(candidates, 1, 1), "")

\* lines 1169-1178: status 429
RateLimited ==
    /\ m_pc = "llm"
    /\ RetryOrGiveUp("rate_limit")

\* lines 1161-1166 and 1183-1191: requests.post raises (no connection,
\* timeout)
RequestFails ==
    /\ m_pc = "llm"
    /\ RetryOrGiveUp("transport")

\* lines 1180 and 1183-1191: an error status other than 429 (400, 401,
\* 500, ...): raise_for_status raises HTTPError, a RequestException
ErrorStatus ==
    /\ m_pc = "llm"
    /\ RetryOrGiveUp("error_status")

\* lines 1257-1259: a status that is no error and not 200
OtherStatus ==
    /\ m_pc = "llm"
    /\ Emit(SubSeq(candidates, 1, 1), "")

\* lines 1193-1256 and 1005-1017: status 200
Completion ==
    /\ m_pc = "llm"
    /\ \E content \in Completions(NamedTitles(candidates)) :
           Emit(ChaptersMatched(ValidatedMatch(content, candidates), candidates),
                IF ExtractJson(content).parsed THEN ReturnedTitle(ExtractJson(content).obj) ELSE "")

\* lines 1052-1055
ReturnSuccess ==
    /\ m_pc = "loop"
    /\ m_pos > Len(m_questions)
    /\ m_result' = "success"
    /\ m_pc' = "done"
    /\ UNCHANGED <<GROQ_API_KEY, vector_store, vector_db, textbook_id, m_index, idx, slept,
                   http_log, m_error, m_questions, m_pos, candidates,
                   attempt, mapped_questions, llm_titles, notMap>>

MapNext ==
    \/ UseCachedIndex \/ UseCachedMetadata \/ LoadIndex \/ CacheLoaded \/ IndexMissing
    \/ EncodeFails \/ NoCandidates \/ FaissOnly \/ BeginRefine
    \/ RateLimited \/ RequestFails \/ ErrorStatus \/ OtherStatus \/ Completion
    \/ ReturnSuccess

(***************************************************************************)
(* Index build: extract_chapters_from_textbook with save_vector_index,     *)
(* running beside a call of map_questions_to_chapters. Each step is one    *)
(* write of a file, one lookup or one assignment of the cache.             *)
(***************************************************************************)
\* A textbook that is built or not, with a cache that is empty or holds
\* what the directory holds
ConsistentStates ==
    SettledStates \cup {Stored(NoIndex, IndexFile(b), MetadataFile(b)) : b \in BuiltIndexes}

BuildStart ==
    /\ e_pc = "start"
    /\ e_id \in TextbookIds
    /\ e_index = NoIndex
    /\ e_result = ""

\* no call of extract_chapters_from_textbook
BuildIdle ==
    /\ e_pc = "idle"
    /\ e_id = 0
    /\ e_index = NoIndex
    /\ e_result = ""

\* A build and a mapping call without questions, for the same textbook or
\* for two textbooks
StoreStart ==
    /\ BuildStart
    /\ GROQ_API_KEY = FALSE
    /\ textbook_id \in TextbookIds
    /\ \E f \in [TextbookIds -> ConsistentStates] :
           /\ vector_store = CacheOf(f)
           /\ vector_db = DiskOf(f)
    /\ m_index = NoIndex
    /\ idx = 0
    /\ slept = <<>>
    /\ http_log = <<>>
    /\ m_error = 0
    /\ m_questions = <<>>
    /\ m_pc = "start"
    /\ m_pos = 1
    /\ candidates = <<>>
    /\ attempt = 0
    /\ mapped_questions = <<>>
    /\ llm_titles = <<>>
    /\ m_result = ""

\* An exception after save_vector_index has run
ExtractFailsAfterSave ==
    /\ e_pc = "cache"
    /\ e_result' = "error"
    /\ e_pc' = "done"
    /\ UNCHANGED <<vector_store, vector_db, e_id, e_index, notBuild>>

\* lines 239-243 and 311-314: no text, or an exception before the save
ExtractFails ==
    /\ e_pc = "start"
    /\ e_result' = "error"
    /\ e_pc' = "done"
    /\ UNCHANGED <<vector_store, vector_db, e_id, e_index, notBuild>>

\* lines 245-292: the chapters, their vectors, the index and the metadata
BuildIndex ==
    /\ e_pc = "start"
    /\ e_index' \in BuiltIndexes
    /\ e_pc' = "write_index"
    /\ UNCHANGED <<vector_store, vector_db, e_id, e_result, notBuild>>

\* save_vector_index, line 88
WriteIndex ==
    /\ e_pc = "write_index"
    /\ vector_db' = [vector_db EXCEPT ![index_path(e_id)] = IndexFile(e_index)]
    /\ e_pc' = "open_metadata"
    /\ UNCHANGED <<vector_store, e_id, e_index, e_result, notBuild>>

\* save_vector_index, lines 88 and 96-98: the write raises, False is
\* returned and line 295 drops it
WriteIndexFails ==
    /\ e_pc = "write_index"
    /\ e_pc' = "cache"
    /\ UNCHANGED <<vector_store, vector_db, e_id, e_index, e_result, notBuild>>

\* save_vector_index, line 91: the file is opened for writing, what it
\* held is gone
OpenMetadata ==
    /\ e_pc = "open_metadata"
    /\ vector_db' = [vector_db EXCEPT ![metadata_path(e_id)] = EmptyFile]
    /\ e_pc' = "write_metadata"
    /\ UNCHANGED <<vector_store, e_id, e_index, e_result, notBuild>>

\* save_vector_index, lines 91 and 96-98: the file cannot be opened
OpenMetadataFails ==
    /\ e_pc = "open_metadata"
    /\ e_pc' = "cache"
    /\ UNCHANGED <<vector_store, vector_db, e_id, e_index, e_result, notBuild>>

\* save_vector_index, line 92
WriteMetadata ==
    /\ e_pc = "write_metadata"
    /\ vector_db' = [vector_db EXCEPT ![metadata_path(e_id)] = MetadataFile(e_index)]
    /\ e_pc' = "cache"
    /\ UNCHANGED <<vector_store, e_id, e_index, e_result, notBuild>>

\* save_vector_index, lines 92 and 96-98: the dump raises
WriteMetadataFails ==
    /\ e_pc = "write_metadata"
    /\ e_pc' = "cache"
    /\ UNCHANGED <<vector_store, vector_db, e_id, e_index, e_result, notBuild>>

\* lines 298-309
CacheEntry ==
    /\ e_pc = "cache"
    /\ vector_store' = [vector_store EXCEPT ![e_id] = e_index]
    /\ e_result' = "success"
    /\ e_pc' = "done"
    /\ UNCHANGED <<vector_db, e_id, e_index, notBuild>>

\* The build, and the mapping call as far as it gets hold of the index
StoreNext ==
    \/ ExtractFails \/ BuildIndex
    \/ WriteIndex \/ WriteIndexFails \/ OpenMetadata \/ OpenMetadataFails
    \/ WriteMetadata \/ WriteMetadataFails
    \/ CacheEntry
    \/ UseCachedIndex \/ UseCachedMetadata \/ LoadIndex \/ CacheLoaded \/ IndexMissing
    \/ ReturnSuccess

(***************************************************************************)
(* The extraction of lines 1193-1256 step by step: the three methods in    *)
(* turn, then the validation of the title.                                 *)
(***************************************************************************)
\* The titles of the candidates of a call
CandidateTitles == {Range(TitlesOf(ChapterList(n))) : n \in {1, OfferedCount}}

ParseStart ==
    /\ x_pc = "method1"
    /\ x_titles \in CandidateTitles
    /\ x_content \in Completions(x_titles \cup {"Mechanics"})
    /\ x_result = NoJson
    /\ x_tried = <<>>
    /\ x_return = NoJson

ParseIdle ==
    /\ x_pc = "idle"
    /\ x_titles = {}
    /\ x_content = [kind |-> "prose", obj |-> EmptyObject]
    /\ x_result = NoJson
    /\ x_tried = <<>>
    /\ x_return = NoJson

\* A method ran: it is noted, and what it parsed becomes llm_result
Ran(method, found) ==
    /\ x_tried' = Append(x_tried, [method |-> method, result |-> found])
    /\ x_result' = IF found.parsed THEN found ELSE x_result

\* lines 1203-1213
TryCodeBlock ==
    /\ x_pc = "method1"
    /\ Ran(1, code_block(x_content))
    /\ x_pc' = "method2"
    /\ UNCHANGED <<x_content, x_titles, x_return, notParse>>

\* lines 1215-1225
TryStructured ==
    /\ x_pc = "method2"
    /\ IF ~Truthy(x_result) THEN Ran(2, structured(x_content))
       ELSE UNCHANGED <<x_tried, x_result>>
    /\ x_pc' = "method3"
    /\ UNCHANGED <<x_content, x_titles, x_return, notParse>>

\* lines 1227-1239
TryFallback ==
    /\ x_pc = "method3"
    /\ IF ~Truthy(x_result) THEN Ran(3, fallback(x_content))
       ELSE UNCHANGED <<x_tried, x_result>>
    /\ x_pc' = "validate"
    /\ UNCHANGED <<x_content, x_titles, x_return, notParse>>

\* lines 1241-1256
Validate ==
    /\ x_pc = "validate"
    /\ x_return' = IF Truthy(x_result) /\ ReturnedTitle(x_result.obj) \in x_titles
                   THEN x_result ELSE NoJson
    /\ x_pc' = "done"
    /\ UNCHANGED <<x_content, x_titles, x_result, x_tried, notParse>>

ParseNext == TryCodeBlock \/ TryStructured \/ TryFallback \/ Validate

(***************************************************************************)
(* Specifications                                                          *)
(***************************************************************************)
ChapInit == ChapStart /\ TocIdle /\ QIdle /\ BlkIdle /\ MapIdle /\ BuildIdle /\ ParseIdle

SpecChap == ChapInit /\ [][ChapNext]_vars

TocInit == TocStart /\ QIdle /\ BlkIdle /\ MapIdle /\ BuildIdle /\ ParseIdle

SpecToc == TocInit /\ [][TocNext]_vars

QInit == QStart /\ ChapIdle /\ TocIdle /\ BlkIdle /\ MapIdle /\ BuildIdle /\ ParseIdle

SpecQ == QInit /\ [][QNext]_vars

BlkInit == BlkStart /\ ChapIdle /\ TocIdle /\ QIdle /\ MapIdle /\ BuildIdle /\ ParseIdle

SpecBlk == BlkInit /\ [][BlkNext]_vars

MapInit == MapStart /\ ChapIdle /\ TocIdle /\ QIdle /\ BlkIdle /\ BuildIdle /\ ParseIdle

SpecMap == MapInit /\ [][MapNext]_vars

StoreInit == StoreStart /\ ChapIdle /\ TocIdle /\ QIdle /\ BlkIdle /\ ParseIdle

SpecStore == StoreInit /\ [][StoreNext]_vars

ParseInit ==
    ParseStart /\ ChapIdle /\ TocIdle /\ QIdle /\ BlkIdle /\ MapIdle /\ BuildIdle

SpecParse == ParseInit /\ [][ParseNext]_vars

(***************************************************************************)
(* Claims about the chapter boundary resolver                              *)
(***************************************************************************)
\* C2 (as claimed): in the list detect_chapters returns, whichever strategy
\* produced it, every adjacent pair of chapters is contiguous:
\* chapters[i].page_end + 1 = chapters[i+1].page_start.
C2_ChapterContiguity ==
    c_pc = "done" =>
        \A i \in 1..(Len(chapters) - 1) :
            chapters[i].page_end + 1 = chapters[i + 1].page_start

\* C3 (as claimed): the list detect_chapters returns starts at page 1 and
\* ends at the last page of the document, for every strategy.
C3_ChapterSpan ==
    c_pc = "done" =>
        /\ chapters # <<>>
        /\ chapters[1].page_start = 1
        /\ chapters[Len(chapters)].page_end = pages_text.n

\* Position of the resolver in its sequence of tiers
TierRank(pc) ==
    CASE pc = "toc" -> 1
      [] pc = "manual" -> 2
      [] pc = "scan" -> 3
      [] pc = "uniform" -> 4
      [] pc = "done" -> 5

\* C11: detect_chapters never fails. The resolver is always at one of its
\* four tiers (TOC, known template, heading scan, uniform blocks) or has
\* returned, every step moves it strictly forward in that sequence, so it
\* returns after at most four steps, and what it returns holds at least
\* one chapter produced by one of the four tiers.
C11_ResolverNeverFails ==
    /\ [](/\ c_pc \in {"toc", "manual", "scan", "uniform", "done"}
          /\ c_pc = "done" =>
                 /\ Len(chapters) >= 1
                 /\ c_strategy \in {"toc", "manual", "scan", "uniform"})
    /\ [][TierRank(c_pc') > TierRank(c_pc)]_vars

\* C11 witness: a textbook whose table of contents has lines but gives no
\* chapter, which is no known template and has no usable heading, comes
\* out of the last tier with at least one chapter
C11_Witness ==
    /\ c_pc = "done"
    /\ c_strategy = "uniform"
    /\ pages_text.toc # <<>>
    /\ pages_text.is_ncert = "no"
    /\ Len(chapters) >= 1

\* What the known-template tier yields on the textbook, once it has read it
ManualYield ==
    IF pages_text.is_ncert = "yes" THEN ManualFrom(1, pages_text.n) ELSE <<>>

\* What the table-of-contents tier yields on the textbook
TocYield ==
    map_toc_to_content(extract_from_table_of_contents(pages_text.toc), pages_text.n)

\* C12 (as claimed): a later tier runs only if every earlier tier yielded
\* no chapter, and the list returned is the complete result of the first
\* tier (TOC, known template, heading scan, uniform blocks) that yields any
\* chapter, never a mix of two tiers
C12_StrategyPriority ==
    /\ c_pc \in {"manual", "scan", "uniform"} => TocYield = <<>>
    /\ c_pc \in {"scan", "uniform"} => ManualYield = <<>>
    /\ c_pc = "uniform" => HeadingScan(pages_text.heads, pages_text.n) = <<>>
    /\ c_pc = "done" =>
           chapters = IF TocYield # <<>> THEN TocYield
                      ELSE IF ManualYield # <<>> THEN ManualYield
                      ELSE IF HeadingScan(pages_text.heads, pages_text.n) # <<>>
                           THEN HeadingScan(pages_text.heads, pages_text.n)
                           ELSE UniformBlocks(pages_text.n)

\* C23 (as claimed): when the table-of-contents tier yields nothing and the
\* three phrases are in the first 50 pages, the chapters returned are those
\* of the hard-coded table (number, title and start page of an entry each),
\* whatever the number of pages
C23_KnownTemplate ==
    (c_pc = "done" /\ TocYield = <<>> /\ pages_text.is_ncert = "yes") =>
        /\ c_strategy = "manual"
        /\ \A i \in 1..Len(chapters) :
               \E k \in 1..Len(ncert_physics_12) :
                   /\ chapters[i].chapter_number = ncert_physics_12[k].number
                   /\ chapters[i].title = ncert_physics_12[k].title
                   /\ chapters[i].page_start = ncert_physics_12[k].approx_start

\* C24 (as claimed): a title captured from a heading line is rejected by
\* the heading scan if and only if the rules of the table-of-contents
\* parse reject it
C24_SameTitleRules ==
    c_pc \in {"uniform", "done"} =>
        \A i \in 1..Len(pages_text.heads) :
            ScanTitleRejected(pages_text.heads[i].title)
                <=> TocTitleRejected(pages_text.heads[i].title)

\* C27 (as claimed): every chapter detect_chapters returns, whichever
\* strategy made it, has 1 <= page_start <= page_end <= last page
C27_PageRangeWellFormed ==
    c_pc = "done" =>
        \A i \in 1..Len(chapters) :
            /\ 1 <= chapters[i].page_start
            /\ chapters[i].page_start <= chapters[i].page_end
            /\ chapters[i].page_end <= pages_text.n

\* C20 (as claimed): in every list detect_chapters returns the chapter
\* numbers increase strictly along the list, so no two chapters share a
\* number, TOC entries that repeat a number with different titles included
C20_ChapterNumbersIncrease ==
    c_pc = "done" =>
        \A i \in 1..(Len(chapters) - 1) :
            chapters[i].chapter_number < chapters[i + 1].chapter_number

DistinctNumbers(qs) ==
    \A i, j \in 1..Len(qs) : i # j => qs[i].question_number # qs[j].question_number

\* C4 (as claimed): within one detection run no two returned questions
\* share the same question number, whichever strategy produced them
C4_QuestionUniqueness ==
    q_pc = "done" => DistinctNumbers(questions)

\* the paper is the one numbered line  "N. <stem> <parts>"
PaperIs(stem_len, parts) ==
    /\ Len(full_text) = 1
    /\ full_text[1].fmt = "dot"
    /\ full_text[1].body = [stem |-> [len |-> stem_len, diag |-> FALSE],
                            style |-> "full", parts |-> parts]

NumbersOf(qs) == [i \in 1..Len(qs) |-> qs[i].question_number]

\* C9 (as claimed): a question N whose body is the four short options
\* "(a) Red (b) Blue (c) Green (d) Yellow" is detected as the single
\* question N and is never split into sub-questions
C9_OptionsNotSplit ==
    (q_pc = "done" /\ \E st \in {0, 8, 24} : PaperIs(st, OptionParts)) =>
        NumbersOf(questions) = <<(<<full_text[1].num, "">>)>>

\* The lengths of the spans of the matches m in the body b
SpanLengths(m, b) == [j \in 1..Len(m) |-> SpanLen(m, j, b)]

\* Every length differs from the mean of the lengths by less than half of
\* the mean (scaled by twice the number of lengths)
WithinHalfOfMean(lengths) ==
    \A j \in 1..Len(lengths) :
        LET d == Len(lengths) * lengths[j] - SumSeq(lengths)
        IN 2 * (IF d < 0 THEN 0 - d ELSE d) < SumSeq(lengths)

\* The conditions of the length rule as the claim states them
ShortSimilarFour(lengths) ==
    /\ Len(lengths) = 4
    /\ \A j \in 1..Len(lengths) : lengths[j] < 100
    /\ WithinHalfOfMean(lengths)

\* C25 (as claimed): for the two or more marked spans a pattern finds in a
\* question, is_mcq_options is true when there are exactly 4 spans, each
\* shorter than 100 characters and within 50% of the mean length; and when
\* the first span holds no option word (so only the length rule can apply)
\* it is true only then: 4 spans of which one has 100 characters or more
\* are not options
C25_OptionThresholds ==
    q_pc = "done" =>
        \A i \in 1..Len(full_text) : \A p \in 1..Len(SubPatterns) :
            LET b == full_text[i].body
                m == PatternMatches(SubPatterns[p], b)
            IN Len(m) >= 2 =>
                 /\ ShortSimilarFour(SpanLengths(m, b)) => is_mcq_options(m, b)
                 /\ (is_mcq_options(m, b) /\ ~FirstHasIndicator(m, b))
                        => ShortSimilarFour(SpanLengths(m, b))

\* C10 (as claimed): a question N whose body is "(a) Define X.
\* (b) Explain Y. (c) Derive Z." is split into the sub-questions Na, Nb, Nc
C10_SubPartsSplit ==
    (q_pc = "done" /\ \E st \in {0, 8, 24} : PaperIs(st, SubPartParts)) =>
        NumbersOf(questions) = << <<full_text[1].num, "a">>, <<full_text[1].num, "b">>,
                                  <<full_text[1].num, "c">> >>

\* C7 (as claimed): split_into_question_blocks_fixed never raises, gap
\* recovery with hits included, and returns an empty list only when no
\* structural pattern matches anywhere in the text
C7_NeverRaises ==
    b_pc = "done" =>
        /\ raised = ""
        /\ (blocks = <<>> => all_starts(Preprocessed(paper_text)) = <<>>)

\* The two grounds for discarding a block: too short or without a letter,
\* or instructional vocabulary without any question indicator
DiscardGround(text, ls) ==
    \/ BlockLen(text, ls) < BlockMinLen
    \/ ~\E j \in ls : BlkBody(text[j].body).alpha
    \/ /\ \E j \in ls : BlkBody(text[j].body).instr
       /\ ~\E j \in ls : BlkBody(text[j].body).likely

\* C26 (as claimed): of the blocks between the kept starts, exactly those
\* with one of the two grounds for discarding are missing from the output
C26_BlockDiscardRule ==
    LET text == Preprocessed(paper_text)
        starts == final_starts(text)
    IN (b_pc = "done" /\ raised = "" /\ starts # <<>>) =>
           \A i \in 1..Len(starts) :
               (\E k \in 1..Len(blocks) : blocks[k].first_line = starts[i].line)
                   <=> ~DiscardGround(text, BlockLines(text, starts, i))

\* C8 (as claimed): when the kept starts leave a number m missing inside
\* their range, fewer than 30 are missing and a search pattern of gap
\* recovery matches m in the text, the output holds a block numbered m
C8_GapRecovery ==
    (b_pc = "done" /\ final_starts(Preprocessed(paper_text)) # <<>>) =>
        \A m \in Recovered(Preprocessed(paper_text), final_starts(Preprocessed(paper_text))) :
            /\ raised = ""
            /\ \E i \in 1..Len(blocks) : blocks[i].block_number = m

\* C1 (as claimed): when the completion names a title that is none of the
\* 3 titles the prompt offered, the chapter of the question is the top
\* candidate of the search with its retrieval score unchanged
C1_RefinementGrounding ==
    \A i \in 1..Len(mapped_questions) :
        LET cs == Candidates(m_questions[i], m_index)
        IN (llm_titles[i] # "" /\ llm_titles[i] \notin Range(TitlesOf(Offered(cs)))) =>
               mapped_questions[i].chapters = SubSeq(cs, 1, 1)

\* Either file of the textbook the call is for is missing from the directory
ArtifactAbsent ==
    \/ ~vector_db[index_path(textbook_id)].exists
    \/ ~vector_db[metadata_path(textbook_id)].exists

\* C13: a call of map_questions_to_chapters for a textbook that is not in
\* the cache and lacks its index file or its metadata file returns at once
\* the error that names the textbook id; the step changes neither the
\* cache nor the directory; and a call that ended so has mapped no
\* question, searched for none, slept before and sent no completion
\* request, and left the cache without an entry for the id.
C13_IndexMissing ==
    /\ [][(m_pc = "start" /\ ~vector_store[textbook_id].present /\ ArtifactAbsent) =>
              /\ m_pc' = "done"
              /\ m_result' = "no_index"
              /\ m_error' = textbook_id
              /\ vector_store' = vector_store
              /\ vector_db' = vector_db]_vars
    /\ [](m_result = "no_index" =>
              /\ m_pc = "done"
              /\ m_error = textbook_id
              /\ mapped_questions = <<>>
              /\ m_pos = 1 /\ candidates = <<>> /\ llm_titles = <<>>
              /\ slept = <<>> /\ http_log = <<>> /\ attempt = 0
              /\ m_index = NoIndex
              /\ ~vector_store[textbook_id].present)

\* C13 witness: questions were handed in for a textbook whose index file
\* is there while its metadata file is not, and the call returned the
\* error naming the textbook
C13_Witness ==
    /\ m_result = "no_index"
    /\ m_error = textbook_id
    /\ m_questions # <<>>
    /\ vector_db[index_path(textbook_id)].exists
    /\ ~vector_db[metadata_path(textbook_id)].exists
    /\ ~vector_store[textbook_id].present

\* C14 (as claimed): a call of refine_chapter_match_with_llm sends at most
\* 3 requests and ends (every step sends the next request or returns); a
\* request is tried again only after a rate-limit status or a transport
\* failure, the i-th after a wait of 5 * 2^(i-1) seconds; and a call that
\* used up its attempts names no chapter, the question getting the top
\* candidate of the search.
C14_BoundedRetry ==
    /\ [](/\ Len(http_log) = attempt
          /\ attempt + 1 <= max_retries
          /\ \A i \in 1..Len(http_log) :
                 /\ http_log[i].outcome \in {"rate_limit", "transport"}
                 /\ http_log[i].wait = base_delay * 2 ^ (i - 1))
    /\ [][m_pc = "llm" => (attempt' = attempt + 1 \/ m_pc' = "loop")]_vars
    /\ [][(/\ m_pc = "llm" /\ m_pc' = "loop"
           /\ attempt = max_retries - 1
           /\ llm_titles'[Len(llm_titles')] = "") =>
              mapped_questions'[Len(mapped_questions')].chapters = SubSeq(candidates, 1, 1)]_vars

\* C15 (as claimed): in one run of map_questions_to_chapters the 4-second
\* delay is taken before every refinement call but the first and not before
\* the first, whatever the search returned
C15_InterCallDelay ==
    \A j \in 1..Len(slept) : slept[j] = (j > 1)

\* C18: when the completion is a well-formed record whose chapter_title
\* is the title of one of the candidates the prompt offered, the question
\* gets exactly one chapter, and it is that candidate: same chapter_number,
\* title and page range.
C18_ValidRefinementHonoured ==
    \A i \in 1..Len(mapped_questions) :
        LET offered == Offered(Candidates(m_questions[i], m_index))
            e == mapped_questions[i]
        IN (llm_titles[i] # "" /\ llm_titles[i] \in Range(TitlesOf(offered))) =>
               /\ Len(e.chapters) = 1
               /\ \E j \in 1..Len(offered) :
                      /\ offered[j].chapter_title = llm_titles[i]
                      /\ e.chapters[1].chapter_number = offered[j].chapter_number
                      /\ e.chapters[1].chapter_title = offered[j].chapter_title
                      /\ e.chapters[1].page_start = offered[j].page_start
                      /\ e.chapters[1].page_end = offered[j].page_end

\* C18 witness: two questions of one run, each answered with the title of
\* an offered candidate, get two different chapters, the first of them a
\* chapter that is not the top candidate of its search
C18_Witness ==
    /\ m_result = "success"
    /\ Len(mapped_questions) = 2
    /\ \A i \in 1..2 :
           /\ llm_titles[i] \in Range(TitlesOf(Offered(Candidates(m_questions[i], m_index))))
           /\ mapped_questions[i].chapters[1].chapter_title = llm_titles[i]
    /\ mapped_questions[1].chapters[1].chapter_number
           # Candidates(m_questions[1], m_index)[1].chapter_number
    /\ mapped_questions[1].chapters[1].chapter_number # mapped_questions[2].chapters[1].chapter_number

\* C5 (as claimed): when the index is there, a question whose processing
\* fails (embedding error, no candidate, refinement error) does not end the
\* run: the call returns success with a result for every question
C5_FailureIsolation ==
    (m_pc = "done" /\ m_result # "no_index") =>
        /\ m_result = "success"
        /\ Len(mapped_questions) = Len(m_questions)

\* C6: a successful run returns one result per question, in the order of
\* the input, each with the fields of its question and exactly one chapter,
\* which is the refined match or the top candidate of the search
C6_OneResultPerQuestion ==
    m_result = "success" =>
        /\ Len(mapped_questions) = Len(m_questions)
        /\ \A i \in 1..Len(mapped_questions) :
               LET e == mapped_questions[i]
                   cs == Candidates(m_questions[i], m_index)
               IN /\ e.question_number = m_questions[i].question_number
                  /\ e.question_text = m_questions[i].question_text
                  /\ Len(e.chapters) = 1
                  /\ \/ e.chapters = SubSeq(cs, 1, 1)
                     \/ /\ llm_titles[i] # ""
                        /\ e.chapters[1].chapter_title = llm_titles[i]
                        /\ \E j \in 1..Len(cs) :
                               /\ cs[j].chapter_number = e.chapters[1].chapter_number
                               /\ cs[j].chapter_title = e.chapters[1].chapter_title

\* C6 witness: a successful run over two different questions, one answered
\* by the refined match and one by the top candidate of the search
C6_Witness ==
    /\ m_result = "success"
    /\ Len(mapped_questions) = 2
    /\ m_questions[1] # m_questions[2]
    /\ \E i, j \in 1..2 :
           /\ llm_titles[i] # ""
           /\ mapped_questions[i].chapters # SubSeq(Candidates(m_questions[i], m_index), 1, 1)
           /\ llm_titles[j] = ""
           /\ mapped_questions[j].chapters = SubSeq(Candidates(m_questions[j], m_index), 1, 1)

\* The builds a textbook had when the build and the mapping call began
\* (old) and the one the build makes (new)
SameBuild(index) == index \in BuiltIndexes

\* C16: while a build of textbook T interleaves with a mapping call for T,
\* the index and the metadata chapter list the call obtains belong to one
\* build: as many vectors as chapters, the chapters of that build
C16_ReaderSeesOneBuild ==
    (e_id = textbook_id /\ m_pc \in {"loaded", "loop"}) => SameBuild(m_index)

\* C17: a step changes the cache entry or a file of a textbook only when it
\* is a step of the call for that textbook; when the build and the mapping
\* call are for two textbooks, what the mapping call obtains is what its own
\* textbook held at the start, and the build leaves its own index in the cache
C17_DisjointTextbooks ==
    /\ [][\A id \in TextbookIds :
             (\/ vector_store'[id] # vector_store[id]
              \/ vector_db'[index_path(id)] # vector_db[index_path(id)]
              \/ vector_db'[metadata_path(id)] # vector_db[metadata_path(id)])
             => \/ e_pc' # e_pc /\ id = e_id
                \/ m_pc' # m_pc /\ id = textbook_id]_vars
    /\ [](e_id # textbook_id =>
             /\ m_pc \in {"loaded", "loop"} \/ m_result = "success" =>
                    /\ m_index \in BuiltIndexes
                    /\ m_index = load_vector_index(vector_db, textbook_id)
             /\ m_pc \in {"loop"} \/ m_result = "success" =>
                    vector_store[textbook_id] = m_index
             /\ m_result = "no_index" =>
                    /\ ~vector_store[textbook_id].present
                    /\ ~load_vector_index(vector_db, textbook_id).present
             /\ e_result = "success" => vector_store[e_id] = e_index)

\* C17 witness: a build of one textbook wrote both files and the cache
\* entry while a mapping call loaded another textbook, of another size,
\* from the directory
C17_Witness ==
    /\ e_id # textbook_id
    /\ e_result = "success"
    /\ m_result = "success"
    /\ vector_db[index_path(e_id)] = IndexFile(e_index)
    /\ vector_db[metadata_path(e_id)] = MetadataFile(e_index)
    /\ vector_store[e_id] = e_index
    /\ vector_store[textbook_id] = m_index
    /\ m_index # e_index

\* C21: no step of a mapping run changes a file of the directory, a cache
\* entry that is present or the index and metadata the run works on; the
\* only assignment of the cache is line 951, for the textbook of the run,
\* with what the directory holds; after a successful run the cache holds
\* what the run worked on, so a second run finds the same candidates and
\* scores for every question
C21_MappingReadOnly ==
    /\ [][/\ vector_db' = vector_db
          /\ \A id \in TextbookIds :
                 /\ vector_store[id].present => vector_store'[id] = vector_store[id]
                 /\ vector_store'[id] # vector_store[id] =>
                        /\ id = textbook_id
                        /\ vector_store'[id] = load_vector_index(vector_db, id)
          /\ m_pc \in {"loop", "llm"} => m_index' = m_index]_vars
    /\ [](m_result = "success" =>
             /\ vector_store[textbook_id] = m_index
             /\ \A i \in 1..Len(m_questions) :
                    Candidates(m_questions[i], vector_store[textbook_id])
                        = Candidates(m_questions[i], m_index))

\* C21 witness: a successful run in which the completion named a candidate
\* other than the top one with a confidence of its own, on a textbook that
\* is built and on disk
C21_Witness ==
    /\ m_result = "success"
    /\ m_index \in BuiltIndexes
    /\ vector_db[index_path(textbook_id)] = IndexFile(m_index)
    /\ vector_db[metadata_path(textbook_id)] = MetadataFile(m_index)
    /\ \E i \in 1..Len(mapped_questions) :
           LET cs == Candidates(m_questions[i], m_index)
           IN /\ llm_titles[i] # ""
              /\ mapped_questions[i].chapters[1].chapter_title = llm_titles[i]
              /\ mapped_questions[i].chapters[1].chapter_title # cs[1].chapter_title
              /\ mapped_questions[i].chapters[1].similarity_score = 150

\* The methods that produced a parsed record, by their place in x_tried
ParsedAt == {i \in 1..Len(x_tried) : x_tried[i].result.parsed}

\* C22: the methods run in the order code block, strict shape, brace scan;
\* a method runs only when no method before it produced a parsed record;
\* the record validated is the one of the first method that parsed, and when
\* no method parsed there is no refinement
C22_ExtractionOrder ==
    /\ \A j \in 1..Len(x_tried) :
           /\ \A i \in 1..(j - 1) : x_tried[i].method < x_tried[j].method
           /\ \A i \in 1..(j - 1) : ~x_tried[i].result.parsed
    /\ x_pc = "done" =>
           IF ParsedAt = {} THEN x_return = NoJson
           ELSE LET first == x_tried[CHOOSE i \in ParsedAt : \A j \in ParsedAt : i <= j].result
                IN x_return = IF ReturnedTitle(first.obj) \in x_titles THEN first ELSE NoJson

\* C28 (as claimed): when the build returned success for a textbook, both
\* files of the textbook exist and hold the index and the metadata of the
\* cache entry, with as many vectors as chapters, so that loading the
\* textbook from the directory gives the cache entry
C28_PersistedAgreesWithCache ==
    e_result = "success" =>
        /\ vector_store[e_id].present
        /\ vector_store[e_id].ntotal = Len(vector_store[e_id].chapters)
        /\ vector_db[index_path(e_id)] = IndexFile(vector_store[e_id])
        /\ vector_db[metadata_path(e_id)] = MetadataFile(vector_store[e_id])
        /\ load_vector_index(vector_db, e_id) = vector_store[e_id]

\* C29: the build returns an error only by a step from its start that
\* changes neither the cache nor the directory, and no step the build makes
\* from its start changes them: when the error is returned the build has
\* made no index and has written nothing, so what was built before is still
\* there
C29_FailedBuildChangesNothing ==
    /\ [][(e_result' = "error" /\ e_result # "error") =>
             /\ e_pc = "start"
             /\ vector_store' = vector_store
             /\ vector_db' = vector_db]_vars
    /\ [][(e_pc = "start" /\ e_pc' # e_pc) =>
             /\ vector_store' = vector_store
             /\ vector_db' = vector_db]_vars
    /\ [](e_result = "error" => e_pc = "done" /\ e_index = NoIndex)

\* C29 witness: the build of a textbook that was built before returned an
\* error, the files and the cache entry of the earlier build are in place
\* and a mapping call for the same textbook succeeded on them
C29_Witness ==
    /\ e_result = "error"
    /\ vector_store[e_id] \in BuiltIndexes
    /\ vector_db[index_path(e_id)] = IndexFile(vector_store[e_id])
    /\ vector_db[metadata_path(e_id)] = MetadataFile(vector_store[e_id])
    /\ textbook_id = e_id
    /\ m_result = "success"
    /\ m_index = vector_store[e_id]

\* C30: every similarity_score of the mapped questions lies in 0..100, and
\* the candidates of a search are at most min(5, index size), in the order
\* of non-increasing score, each score in 0..100
C30_ScoreBounds ==
    /\ \A i \in 1..Len(mapped_questions) :
           \A j \in 1..Len(mapped_questions[i].chapters) :
               mapped_questions[i].chapters[j].similarity_score \in 0..100
    /\ Len(candidates) <= Min2(5, m_index.ntotal)
    /\ \A i \in 1..Len(candidates) :
           /\ candidates[i].similarity_score \in 0..100
           /\ \A j \in i..Len(candidates) :
                  candidates[j].similarity_score <= candidates[i].similarity_score

====
